---- MODULE Spec2Model ----
(***************************************************************************)
(* SyntaxPad: the code editor widget (CodeEditor.py), its pure indentation *)
(* helpers (EditorLogic.py), the highlighter (PythonHighlighter.py), the   *)
(* calltip resolver (Calltips.py) and the find / replace panel of the main *)
(* window (SyntaxPadWindow.py).                                            *)
(*                                                                         *)
(* A document is a sequence of one-character strings; "\n" separates the   *)
(* blocks (lines).  Cursor positions are 0-based offsets into it, as in    *)
(* QTextCursor: the character after position p is text[p + 1].             *)
(***************************************************************************)
EXTENDS Integers, Sequences, FiniteSets, TLC

VARIABLES
    text,        \* the document of the editor (QPlainTextEdit.document())
    position,    \* the editor's text cursor: QTextCursor.position()
    anchor,      \* the editor's text cursor: QTextCursor.anchor()
    editBlocks,  \* the document's count of open edit blocks (beginEditBlock)
    tip,         \* the calltip QToolTip shows, NoTip when hidden
    timer,       \* the interval _calltip_timer was last started with, 0: idle
    settings,    \* the window's _settings dict
    palette,     \* CodeEditor._palette
    hlPalette,   \* PythonHighlighter.palette
    rules,       \* PythonHighlighter._rules: the (rule, colour) list
    formats,     \* the character formats of the document, one row per block
    fnArgs,      \* arguments of the pure function under check
    fnRet,       \* its result
    settingsFile,     \* what ~/.syntaxpad.json holds
    pointSize,        \* CodeEditor.font().pointSize()
    defaultFontSize,  \* CodeEditor._default_font_size
    process,          \* SyntaxPadWindow._process.state()
    runEnabled,       \* run_action.isEnabled()
    stopEnabled,      \* stop_action.isEnabled()
    currentFile,      \* whether _current_file holds a path
    last,        \* history: the last operation, its inputs and the state before
    steps        \* operations the behaviour may still handle

\* the editor's text, highlighting and calltip, and the function calls
editorVars == <<text, position, anchor, editBlocks, tip, timer, palette,
                hlPalette, rules, formats, fnArgs, fnRet>>

\* the font, the settings file and the script process of the window
windowVars == <<settingsFile, pointSize, defaultFontSize, process,
                runEnabled, stopEnabled, currentFile>>

vars == <<editorVars, settings, windowVars, last, steps>>

----------------------------------------------------------------------------
(* Bounds of the model. *)

\* keystrokes handled in one behaviour of Spec
MaxSteps == 2
\* longest initial document of Spec
MaxDocLen == 2
\* keystrokes handled in one behaviour of SpecIndent
IndentSteps == 1
\* most lines of an initial document of SpecIndent
MaxLines == 3
\* operations of the search panel in one behaviour of SpecSearch
SearchSteps == 1
\* longest initial document of SpecSearch
MaxSearchDocLen == 3
\* longest search text
MaxQueryLen == 2
\* palette swaps in one behaviour of SpecHighlight
HighlightSteps == 2
\* most lines of an initial document of SpecHighlight
MaxHighlightLines == 2
\* longest enumerated line prefix of SpecLogic
MaxPrefixLen == 4
\* calls in one behaviour of SpecLogic
LogicSteps == 1
\* operations in one behaviour of SpecCore
CoreSteps == 2
\* longest enumerated initial document of SpecCore
MaxCoreDocLen == 2
\* operations in one behaviour of SpecCalltip
CalltipSteps == 2
\* longest enumerated initial document of SpecCalltip
MaxCalltipDocLen == 2
\* operations in one behaviour of SpecWindow
WindowSteps == 3
\* operations in one behaviour of SpecReplaceAll
ReplaceAllSteps == 1
\* longest enumerated initial document of SpecReplaceAll
MaxReplaceDocLen == 4
\* longest enumerated line of SpecLogic
MaxLineLen == 5

----------------------------------------------------------------------------
(* Characters. *)

Letters == {"i", "d", "a", "A", "b", "B", "x", "e", "f"}
Digits == {"0", "1"}
Whitespace == {" ", "\t", "\n"}

\* QChar.isLetterOrNumber, on the characters of the model
IsLetterOrNumber(c) == c \in Letters \cup Digits

\* QString comparison under Qt.CaseInsensitive: fold a character to lower case
ToLower(c) ==
    CASE c = "A" -> "a"
      [] c = "B" -> "b"
      [] OTHER -> c

Min(a, b) == IF a < b THEN a ELSE b
Max(a, b) == IF a > b THEN a ELSE b

----------------------------------------------------------------------------
(* EditorLogic.py *)

DEFAULT_INDENT == <<" ", " ", " ", " ">>

\* the run of spaces and tabs that starts p
RECURSIVE LeadingBlanks(_)
LeadingBlanks(p) ==
    IF p # <<>> /\ Head(p) \in {" ", "\t"}
    THEN 1 + LeadingBlanks(Tail(p)) ELSE 0

\* len(p) - len(p.lstrip(" ")): the run of literal spaces that starts p
RECURSIVE LeadingSpaces(_)
LeadingSpaces(p) ==
    IF p # <<>> /\ Head(p) = " " THEN 1 + LeadingSpaces(Tail(p)) ELSE 0

\* str.rstrip(): drop trailing whitespace (space, tab, line break)
RECURSIVE RStrip(_)
RStrip(p) ==
    IF p # <<>> /\ p[Len(p)] \in Whitespace
    THEN RStrip(SubSeq(p, 1, Len(p) - 1))
    ELSE p

\* p.endswith(":")
EndsWithColonUntrimmed(p) == p # <<>> /\ p[Len(p)] = ":"

\* p.rstrip().endswith(":")
EndsWithColon(p) ==
    LET t == RStrip(p) IN t # <<>> /\ t[Len(t)] = ":"

Spaces(n) == [i \in 1..n |-> " "]

compute_newline_with_indentation(current_line_prefix, indent_unit) ==
    LET indent == LeadingSpaces(current_line_prefix)
        indent_text == Spaces(indent)
        extra_indent == IF EndsWithColon(current_line_prefix)
                        THEN indent_unit ELSE <<>>
    IN <<"\n">> \o indent_text \o extra_indent

StartsWith(line, prefix) ==
    /\ Len(prefix) <= Len(line)
    /\ SubSeq(line, 1, Len(prefix)) = prefix

\* the slice of unindent_line taken whether or not the line starts with it
unindent_line_unconditional(line, indent_unit) ==
    SubSeq(line, Len(indent_unit) + 1, Len(line))

unindent_line(line, indent_unit) ==
    IF StartsWith(line, indent_unit)
    THEN SubSeq(line, Len(indent_unit) + 1, Len(line))
    ELSE line

----------------------------------------------------------------------------
(* The text document and its cursors, as CodeEditor.py uses them. *)

\* QTextCursor.insertText / removeSelectedText on the range [from, to)
ReplaceRange(t, from, to, s) ==
    SubSeq(t, 1, from) \o s \o SubSeq(t, to + 1, Len(t))

\* QTextCursor.selectionStart / selectionEnd / hasSelection
SelStart(p, a) == Min(p, a)
SelEnd(p, a) == Max(p, a)
HasSelection(p, a) == p # a

\* QTextCursor.movePosition(PreviousCharacter / NextCharacter): a move past
\* either end of the document fails and leaves the cursor where it is
PreviousCharacter(t, p) == IF p > 0 THEN p - 1 ELSE p
NextCharacter(t, p) == IF p < Len(t) THEN p + 1 ELSE p

\* QTextDocument.characterAt(p): the null character outside the document;
\* the end of the last block holds a paragraph separator
NullChar == "NUL"
CharacterAt(t, p) ==
    IF p < 0 \/ p > Len(t) THEN NullChar
    ELSE IF p = Len(t) THEN "\n"
    ELSE t[p + 1]

\* position of the first character of the block holding position p
BlockStart(t, p) ==
    CHOOSE i \in 0..p :
        /\ i = 0 \/ t[i] = "\n"
        /\ \A j \in (i + 1)..p : t[j] # "\n"

\* position just after the last character of the block holding position p
BlockEnd(t, p) ==
    CHOOSE i \in p..Len(t) :
        /\ i = Len(t) \/ t[i + 1] = "\n"
        /\ \A j \in (p + 1)..i : t[j] # "\n"

\* QTextBlock.text() of the block holding position p
BlockText(t, p) == SubSeq(t, BlockStart(t, p) + 1, BlockEnd(t, p))

\* QTextCursor.positionInBlock()
PositionInBlock(t, p) == p - BlockStart(t, p)

\* QTextCursor.movePosition(NextBlock): fails in the last block
HasNextBlock(t, p) == BlockEnd(t, p) < Len(t)
NextBlock(t, p) == IF HasNextBlock(t, p) THEN BlockEnd(t, p) + 1 ELSE p

\* the blocks of the document, in order
RECURSIVE Blocks(_)
Blocks(t) ==
    LET e == BlockEnd(t, 0) IN
    IF e = Len(t) THEN <<t>>
    ELSE <<SubSeq(t, 1, e)>> \o Blocks(SubSeq(t, e + 2, Len(t)))

\* number of the block holding position p, from 1
BlockNumber(t, p) == 1 + Cardinality({i \in 1..p : t[i] = "\n"})

----------------------------------------------------------------------------
(* Calltips.py, and the settings the editor reads through its parent. *)

\* Python's None, as a value no text equals
None == <<"<None>">>

\* dict.get(key, default)
Get(d, k, default) == IF k \in DOMAIN d THEN d[k] ELSE default

\* what getattr(builtins, name, None) finds, for the names of the model: id,
\* the one the model's letters can spell, is a function with the signature
\* and documentation inspect reports for it; range is a type whose
\* signature inspect cannot read (sig None); __doc__ is a string and True a
\* bool, neither callable; builtins.None is None itself
Builtins ==
    (<<"i", "d">> :> [is_none |-> FALSE, callable |-> TRUE,
                      sig |-> <<"(", "x", ")">>,
                      doc |-> <<"e", "\n", "\n", "f">>])
    @@ (<<"r", "a", "n", "g", "e">> :>
            [is_none |-> FALSE, callable |-> TRUE, sig |-> None,
             doc |-> <<"e", "\n", "f">>])
    @@ (<<"_", "_", "d", "o", "c", "_", "_">> :>
            [is_none |-> FALSE, callable |-> FALSE, sig |-> None,
             doc |-> <<"e", "\n", "f">>])
    @@ (<<"T", "r", "u", "e">> :>
            [is_none |-> FALSE, callable |-> FALSE, sig |-> None,
             doc |-> <<"e", "\n", "\n", "f">>])
    @@ (<<"N", "o", "n", "e">> :>
            [is_none |-> TRUE, callable |-> FALSE, sig |-> None,
             doc |-> <<>>])
    \* exit is callable and has no documentation
    @@ (<<"e", "x", "i", "t">> :>
            [is_none |-> FALSE, callable |-> TRUE,
             sig |-> <<"(", "x", ")">>, doc |-> <<>>])
    \* functions a site module has put into builtins: hh documented
    \* with a blank first line and blanks around the summary, ws with
    \* blanks only
    @@ (<<"h", "h">> :>
            [is_none |-> FALSE, callable |-> TRUE,
             sig |-> <<"(", ")">>,
             doc |-> <<"\n", " ", "e", " ", "\n", "f">>])
    @@ (<<"w", "s">> :>
            [is_none |-> FALSE, callable |-> TRUE,
             sig |-> <<"(", ")">>, doc |-> <<" ", "\n">>])

\* the character of the placeholder signature of line 15
Ellipsis == "ELLIPSIS"

IdentStart == Letters \cup {"_"}
IdentChar == IdentStart \cup Digits

\* re.search(r"([A-Za-z_][A-Za-z0-9_]*)$", before): the leftmost match
ReSearchIdentifierAtEnd(before) ==
    LET starts == {s \in 1..Len(before) :
                      /\ before[s] \in IdentStart
                      /\ \A j \in s..Len(before) : before[j] \in IdentChar}
    IN IF starts = {} THEN None
       ELSE LET s == CHOOSE x \in starts : \A y \in starts : x <= y
            IN SubSeq(before, s, Len(before))

\* CodeEditor._word_before_cursor
WordBeforeCursor(t, p) ==
    ReSearchIdentifierAtEnd(SubSeq(t, BlockStart(t, p) + 1, p))

\* str.strip()
RECURSIVE LStrip(_)
LStrip(s) == IF s # <<>> /\ Head(s) \in Whitespace THEN LStrip(Tail(s)) ELSE s
Strip(s) == LStrip(RStrip(s))

\* str.splitlines()[0] of a non-empty string
FirstLine(s) ==
    LET ends == {i \in 1..Len(s) : s[i] = "\n"}
    IN IF ends = {} THEN s
       ELSE SubSeq(s, 1, (CHOOSE i \in ends : \A j \in ends : i <= j) - 1)

\* the exception of line 17: doc.strip().splitlines() is the empty list
IndexError == <<"<IndexError>">>

\* CalltipText with the whole documentation in place of its first line
CalltipTextWholeDoc(name, obj) ==
    LET sig == IF obj.sig = None THEN <<"(", Ellipsis, ")">> ELSE obj.sig
    IN IF obj.doc # <<>> /\ Strip(obj.doc) = <<>>
       THEN IndexError
       ELSE Strip(name \o sig \o <<"\n">> \o Strip(obj.doc))

\* the calltip of a callable object: name, signature, first documentation line
CalltipText(name, obj) ==
    LET sig == IF obj.sig = None THEN <<"(", Ellipsis, ")">> ELSE obj.sig
        doc == obj.doc
        first == IF doc # <<>> THEN FirstLine(Strip(doc)) ELSE <<>>
    IN IF doc # <<>> /\ Strip(doc) = <<>>
       THEN IndexError
       ELSE IF first # <<>>
            THEN Strip(name \o sig \o <<"\n">> \o first)
            ELSE Strip(name \o sig)

\* get_builtin_calltip without the callable test of line 10
get_builtin_calltip_any_entry(name) ==
    IF name \notin DOMAIN Builtins \/ Builtins[name].is_none
    THEN None
    ELSE CalltipText(name, Builtins[name])

get_builtin_calltip(name) ==
    IF \/ name \notin DOMAIN Builtins
       \/ Builtins[name].is_none
       \/ ~Builtins[name].callable
    THEN None
    ELSE CalltipText(name, Builtins[name])

DefaultTimeout == 2500
MinTimeout == 500

\* CodeEditor._try_show_calltip_at_cursor, with the cursor at p: the tooltip
\* and the timer interval afterwards
\* _try_show_calltip_at_cursor starting the timer with the setting as it is
TryShowCalltipAtCursorUnclamped(t, p, curTip, curTimer) ==
    LET name == WordBeforeCursor(t, p)
        keep == [tip |-> curTip, timer |-> curTimer]
    IN IF name = None THEN keep
       ELSE IF ~Get(settings, "show_calltips", TRUE) THEN keep
       ELSE LET tipText == get_builtin_calltip(name)
            IN IF tipText = None THEN keep
               ELSE [tip |-> tipText,
                     timer |-> Get(settings, "calltip_timeout_ms",
                                   DefaultTimeout)]

TryShowCalltipAtCursor(t, p, curTip, curTimer) ==
    LET name == WordBeforeCursor(t, p)
        keep == [tip |-> curTip, timer |-> curTimer]
    IN IF name = None THEN keep
       ELSE IF ~Get(settings, "show_calltips", TRUE) THEN keep
       ELSE LET tipText == get_builtin_calltip(name)
            IN IF tipText = None THEN keep
               ELSE [tip |-> tipText,
                     timer |-> Max(MinTimeout,
                                   Get(settings, "calltip_timeout_ms",
                                       DefaultTimeout))]

----------------------------------------------------------------------------
(* CodeEditor.keyPressEvent.  Each handler is an operator from the editor  *)
(* state to the editor state it leaves: [text, position, anchor, tip,      *)
(* timer].                                                                 *)

INDENT == <<" ", " ", " ", " ">>

Openers == {"(", "[", "{"}
Closers == {")", "]", "}"}
BRACKETS == ("(" :> ")") @@ ("[" :> "]") @@ ("{" :> "}")

Editor(t, p, a, tp, tm) ==
    [text |-> t, position |-> p, anchor |-> a, tip |-> tp, timer |-> tm]

\* QPlainTextEdit.keyPressEvent for a key that carries text: the text
\* replaces the selection and the cursor ends after it
DefaultKeyPress(t, p, a, s) ==
    [text |-> ReplaceRange(t, SelStart(p, a), SelEnd(p, a), s),
     position |-> SelStart(p, a) + Len(s),
     anchor |-> SelStart(p, a) + Len(s)]

\* _try_show_calltip_before_paren without the step back of lines 242-244
TryShowCalltipBeforeParenNoReturn(t, p) ==
    LET back == PreviousCharacter(t, p)
        shown == TryShowCalltipAtCursor(t, back, tip, timer)
    IN [text |-> t, position |-> back, anchor |-> back,
        tip |-> shown.tip, timer |-> shown.timer]

\* _try_show_calltip_before_paren, with the cursor at p in t
TryShowCalltipBeforeParen(t, p) ==
    LET back == PreviousCharacter(t, p)
        shown == TryShowCalltipAtCursor(t, back, tip, timer)
        forth == NextCharacter(t, back)
    IN Editor(t, forth, forth, shown.tip, shown.timer)

\* priority 4: an opening bracket
OnOpener(key) ==
    LET closing == BRACKETS[key]
        typed == DefaultKeyPress(text, position, anchor, <<key>>)
        t2 == ReplaceRange(typed.text, typed.position, typed.position,
                           <<closing>>)
        afterInsert == typed.position + 1
        between == PreviousCharacter(t2, afterInsert)
    IN IF key = "("
       THEN TryShowCalltipBeforeParen(t2, between)
       ELSE Editor(t2, between, between, tip, timer)

\* the test of line 196 reading the character before the cursor instead
NextCharIsReadsBefore(t, p, key) == CharacterAt(t, p - 1) = key

\* the test of line 196, for a cursor at p without selection: the character
\* the code reads as the one after the cursor equals the typed closer
NextCharIs(t, p, key) ==
    LET next_char_cursor == NextCharacter(t, p)
        next_char == CharacterAt(t, next_char_cursor - 1)
    IN next_char = key

\* a closing bracket handled without the test of lines 190-192
OnCloserIgnoringSelection(key) ==
    LET typed == DefaultKeyPress(text, position, anchor, <<key>>)
    IN IF NextCharIs(text, position, key)
       THEN LET moved == NextCharacter(text, position)
            IN Editor(text, moved, moved,
                      IF key = ")" THEN None ELSE tip, timer)
       ELSE Editor(typed.text, typed.position, typed.anchor, tip, timer)

\* priority 5: a closing bracket
OnCloser(key) ==
    LET typed == DefaultKeyPress(text, position, anchor, <<key>>)
        inserted == Editor(typed.text, typed.position, typed.anchor, tip, timer)
    IN IF HasSelection(position, anchor) THEN inserted
       ELSE IF NextCharIs(text, position, key)
       THEN LET moved == NextCharacter(text, position)
            IN Editor(text, moved, moved,
                      IF key = ")" THEN None ELSE tip, timer)
       ELSE inserted

\* every other key that carries text
OnOtherKey(key) ==
    LET typed == DefaultKeyPress(text, position, anchor, <<key>>)
    IN Editor(typed.text, typed.position, typed.anchor, tip, timer)

\* priority 1: Ctrl+Shift+Space
OnCalltipChord ==
    LET shown == TryShowCalltipAtCursor(text, position, tip, timer)
    IN Editor(text, position, anchor, shown.tip, shown.timer)

\* priority 2: Escape
OnEscape == Editor(text, position, anchor, None, timer)

\* _insert_auto_indentation; the edit block it opens is closed on the same
\* cursor, so the count of open edit blocks is what it was
InsertAutoIndentation ==
    LET current_text == SubSeq(text, BlockStart(text, position) + 1, position)
        newline_with_indent ==
            compute_newline_with_indentation(current_text, INDENT)
        from == SelStart(position, anchor)
        t2 == ReplaceRange(text, from, SelEnd(position, anchor),
                           newline_with_indent)
        p2 == from + Len(newline_with_indent)
    IN Editor(t2, p2, p2, tip, timer)

\* Enter that only hides the tooltip, as Escape does
OnEnterDismissOnly == Editor(text, position, anchor, None, timer)

\* priority 2: Enter / Return
OnEnter == [InsertAutoIndentation EXCEPT !.tip = None]

\* priority 3: Tab; the insertion through a copy of the cursor moves the
\* editor's own cursor behind the inserted text
OnTab ==
    LET typed == DefaultKeyPress(text, position, anchor, INDENT)
    IN Editor(typed.text, typed.position, typed.anchor, tip, timer)

\* lines 266-272: dedent the block holding the cursor c of document t
UnindentBlockAt(t, c) ==
    LET start == BlockStart(t, c)
        block_text == BlockText(t, c)
        new_text == unindent_line(block_text, INDENT)
    IN IF new_text # block_text
       THEN [text |-> ReplaceRange(t, start, BlockEnd(t, c), new_text),
             position |-> start + Len(new_text),
             anchor |-> start + Len(new_text)]
       ELSE [text |-> t, position |-> start, anchor |-> start]

\* the loop of lines 265-274: c is the local cursor, end the loop's bound,
\* which line 274 reads again from the cursor after every block
RECURSIVE UnindentLoop(_, _, _)
UnindentLoop(t, c, end) ==
    IF c.position < end
    THEN LET done == UnindentBlockAt(t, c.position)
             next == NextBlock(done.text, done.position)
             moved == [position |-> next, anchor |-> next]
         IN UnindentLoop(done.text, moved,
                         SelEnd(moved.position, moved.anchor))
    ELSE [text |-> t, position |-> c.position, anchor |-> c.anchor]

\* _unindent_selection
UnindentSelection ==
    LET r == IF HasSelection(position, anchor)
             THEN LET start == SelStart(position, anchor)
                  IN UnindentLoop(text,
                                  [position |-> start, anchor |-> start],
                                  SelEnd(position, anchor))
             ELSE UnindentBlockAt(text, position)
    IN Editor(r.text, r.position, r.anchor, tip, timer)

----------------------------------------------------------------------------
(* Edit blocks.  A journal is the sequence of calls a handler makes on its  *)
(* cursor: beginEditBlock, endEditBlock and the calls that change the       *)
(* document.  QTextDocument keeps the changes made while an edit block is   *)
(* open as one undo step, and every change made outside one as its own.     *)

Changes == {"removeSelectedText", "insertText"}

\* QTextCursor.endEditBlock: nothing on a null cursor
EndEditBlock(cursorIsNull, blocks) ==
    IF cursorIsNull THEN blocks ELSE blocks - 1

\* the depth of open edit blocks after journal j, begun at depth
RECURSIVE DepthAfter(_, _)
DepthAfter(j, depth) ==
    IF j = <<>> THEN depth
    ELSE DepthAfter(Tail(j),
                    CASE Head(j) = "beginEditBlock" -> depth + 1
                      [] Head(j) = "endEditBlock" -> EndEditBlock(FALSE, depth)
                      [] OTHER -> depth)

\* the undo steps journal j begins, started at depth; joined: the open
\* block already holds a change
RECURSIVE UndoSteps(_, _, _)
UndoSteps(j, depth, joined) ==
    IF j = <<>> THEN 0
    ELSE CASE Head(j) = "beginEditBlock" ->
                  UndoSteps(Tail(j), depth + 1, joined /\ depth > 0)
           [] Head(j) = "endEditBlock" ->
                  UndoSteps(Tail(j), EndEditBlock(FALSE, depth), joined)
           [] OTHER ->
                  IF depth = 0 THEN 1 + UndoSteps(Tail(j), depth, FALSE)
                  ELSE (IF joined THEN 0 ELSE 1)
                           + UndoSteps(Tail(j), depth, TRUE)

\* _insert_auto_indentation without the endEditBlock of line 255
AutoIndentJournalLeftOpen ==
    <<"beginEditBlock", "removeSelectedText", "insertText">>

\* the calls of _insert_auto_indentation, lines 248-255, all on the one
\* cursor of line 247
AutoIndentJournal ==
    <<"beginEditBlock", "removeSelectedText", "insertText", "endEditBlock">>

\* the calls of _unindent_selection, lines 260-284, on the cursor of line 259
UnindentJournal ==
    <<"beginEditBlock">>
        \o (IF UnindentSelection.text # text
            THEN <<"removeSelectedText", "insertText">> ELSE <<>>)
        \o <<"endEditBlock">>

\* the journal of the handler of op; the other handlers open no edit block
\* themselves
Journal(op) ==
    CASE op = "enter" -> AutoIndentJournal
      [] op = "backtab" -> UnindentJournal
      [] OTHER -> <<>>

----------------------------------------------------------------------------
(* History: the operation handled last, its inputs and the state it found. *)

NoOp ==
    [op |-> "init", key |-> "", query |-> <<>>, replacement |-> <<>>,
     case_sensitive |-> FALSE, whole_word |-> FALSE, backwards |-> FALSE,
     text |-> <<>>, position |-> 0, anchor |-> 0, editBlocks |-> 0,
     tip |-> None, timer |-> 0, found |-> FALSE, count |-> 0,
     beforeOp |-> "init", beforeKey |-> "", beforeText |-> <<>>,
     beforePosition |-> 0, beforeAnchor |-> 0,
     palette |-> <<>>, formats |-> <<>>, journal |-> <<>>, undoSteps |-> 0,
     arg |-> <<>>, pointSize |-> 0, process |-> "NotRunning",
     started |-> FALSE]

\* the record of handling op with key in the current state; an opener typed
\* just before is kept with the state it found
Hist(op, key) ==
    LET chained == op = "closer" /\ last.op = "opener"
    IN [NoOp EXCEPT !.op = op, !.key = key, !.text = text,
                    !.position = position, !.anchor = anchor,
                    !.editBlocks = editBlocks, !.tip = tip, !.timer = timer,
                    !.beforeOp = IF chained THEN last.op ELSE "init",
                    !.beforeKey = IF chained THEN last.key ELSE "",
                    !.beforeText = IF chained THEN last.text ELSE <<>>,
                    !.beforePosition = IF chained THEN last.position ELSE 0,
                    !.beforeAnchor = IF chained THEN last.anchor ELSE 0]

\* a keystroke: the editor state becomes e
Keystroke(op, key, e) ==
    /\ steps > 0
    /\ text' = e.text
    /\ position' = e.position
    /\ anchor' = e.anchor
    /\ tip' = e.tip
    /\ timer' = e.timer
    /\ editBlocks' = DepthAfter(Journal(op), editBlocks)
    /\ last' = [Hist(op, key) EXCEPT
                    !.journal = Journal(op),
                    !.undoSteps = UndoSteps(Journal(op), editBlocks, FALSE)]
    /\ steps' = steps - 1
    /\ UNCHANGED <<settings, palette, hlPalette, rules, formats,
                   fnArgs, fnRet>>
    /\ UNCHANGED windowVars

\* keys that carry text and are neither brackets nor handled specially
OtherKeys == {"i", "d", ":"}

KeyOpener == \E key \in Openers : Keystroke("opener", key, OnOpener(key))
KeyCloser == \E key \in Closers : Keystroke("closer", key, OnCloser(key))
KeyOther == \E key \in OtherKeys : Keystroke("other", key, OnOtherKey(key))
KeyCalltipChord == Keystroke("chord", "", OnCalltipChord)
KeyEscape == Keystroke("escape", "", OnEscape)
KeyEnter == Keystroke("enter", "", OnEnter)
KeyTab == Keystroke("tab", "", OnTab)
KeyBacktab == Keystroke("backtab", "", UnindentSelection)

\* the single-shot _calltip_timer fires: QToolTip.hideText
CalltipTimeout ==
    /\ steps > 0
    /\ timer > 0
    /\ tip' = None
    /\ timer' = 0
    /\ last' = Hist("timeout", "")
    /\ steps' = steps - 1
    /\ UNCHANGED <<text, position, anchor, editBlocks, settings, palette,
                   hlPalette, rules, formats, fnArgs, fnRet>>
    /\ UNCHANGED windowVars

----------------------------------------------------------------------------
(* Initial states. *)

\* all documents over alphabet of length at most n
RECURSIVE Docs(_, _)
Docs(alphabet, n) ==
    IF n = 0 THEN {<<>>}
    ELSE LET shorter == Docs(alphabet, n - 1)
         IN shorter \cup {Append(d, c) : d \in shorter, c \in alphabet}

\* _load_settings: the defaults
DefaultSettings ==
    [theme |-> "dark", show_calltips |-> TRUE, font_size |-> 13,
     word_wrap |-> TRUE]

KeyAlphabet == {"(", ")", "]", "i", "d", "\n"}

\* short documents with an indented line and a block opener
IndentedDocs == {<<" ", ":">>, <<" ", "i">>}

\* CodeEditor.__init__ line 20: QFont("Consolas", 11)
ConstructedFontSize == 11
\* set_font_size line 52: max(6, min(72, int(size)))
MinFontSize == 6
MaxFontSize == 72

\* set_font_size(size): the point size the editor's font gets
set_font_size(size) == Max(MinFontSize, Min(MaxFontSize, size))

\* the window as built without a settings file: the editor's font is made
\* with 11 points and set to the font_size setting, no script runs
QuietWindow ==
    /\ settingsFile = [kind |-> "missing", data |-> <<>>]
    /\ defaultFontSize = ConstructedFontSize
    /\ pointSize = set_font_size(DefaultSettings.font_size)
    /\ process = "NotRunning"
    /\ runEnabled = TRUE
    /\ stopEnabled = FALSE
    /\ currentFile = FALSE

\* the parts of the state an editing specification leaves alone
QuietInit ==
    /\ QuietWindow
    /\ editBlocks = 0
    /\ tip = None
    /\ timer = 0
    /\ palette = <<>>
    /\ hlPalette = <<>>
    /\ rules = <<>>
    /\ formats = <<>>
    /\ fnArgs = <<>>
    /\ fnRet = <<>>
    /\ last = NoOp

\* an editor holding a short document, the cursor and the selection anywhere
Init ==
    /\ text \in Docs(KeyAlphabet, MaxDocLen) \cup IndentedDocs
    /\ position \in 0..Len(text)
    /\ anchor \in 0..Len(text)
    /\ settings \in {DefaultSettings,
                     [DefaultSettings EXCEPT !.show_calltips = FALSE]}
    /\ steps = MaxSteps
    /\ QuietInit

Next ==
    \/ KeyOpener
    \/ KeyCloser
    \/ KeyOther
    \/ KeyCalltipChord
    \/ KeyEscape
    \/ KeyEnter
    \/ KeyTab
    \/ KeyBacktab
    \/ CalltipTimeout

Spec == Init /\ [][Next]_vars

----------------------------------------------------------------------------
(* Calltips under the settings a file can bring: SpecCalltip. *)

\* the window's settings: the defaults, calltips switched off, and values
\* of calltip_timeout_ms around the minimum
SettingsWithTimeout ==
    {DefaultSettings, [DefaultSettings EXCEPT !.show_calltips = FALSE]}
    \cup {DefaultSettings @@ [calltip_timeout_ms |-> v] :
              v \in {-1, 0, 499, 500, 501, 3000}}

\* an editor with a word of i and d, the cursor anywhere in it

InitCalltip ==
    /\ text \in Docs({"i", "d"}, MaxCalltipDocLen)
    /\ position \in 0..Len(text)
    /\ anchor = position
    /\ settings \in SettingsWithTimeout
    /\ steps = CalltipSteps
    /\ QuietInit

NextCalltip ==
    \/ KeyCalltipChord
    \/ KeyOpener
    \/ KeyOther
    \/ KeyEscape
    \/ CalltipTimeout

SpecCalltip == InitCalltip /\ [][NextCalltip]_vars

----------------------------------------------------------------------------
(* The indentation keys on documents of indented lines. *)

\* the lines: plain, one level deep, two levels deep, a block opener
IndentLines ==
    {<<"i">>, INDENT \o <<"i">>, INDENT \o INDENT, <<" ", "i", ":">>}

\* all documents of k lines taken from lines
RECURSIVE DocsOfLines(_, _)
DocsOfLines(lines, k) ==
    IF k = 1 THEN lines
    ELSE {d \o <<"\n">> \o l : d \in DocsOfLines(lines, k - 1), l \in lines}

InitIndent ==
    /\ \E k \in 1..MaxLines : text \in DocsOfLines(IndentLines, k)
    /\ position \in 0..Len(text)
    /\ anchor \in 0..Len(text)
    /\ settings = DefaultSettings
    /\ steps = IndentSteps
    /\ QuietInit

NextIndent ==
    \/ KeyTab
    \/ KeyBacktab
    \/ KeyEnter

SpecIndent == InitIndent /\ [][NextIndent]_vars

----------------------------------------------------------------------------
(* QTextDocument.find, as find_text and replace_all call it. *)

\* two characters are equal under the case sensitivity cs
SameChar(c, d, cs) == IF cs THEN c = d ELSE ToLower(c) = ToLower(d)

\* q occurs in s at the 0-based index idx
OccursAt(s, q, idx, cs) ==
    /\ idx >= 0
    /\ idx + Len(q) <= Len(s)
    /\ \A k \in 1..Len(q) : SameChar(s[idx + k], q[k], cs)

\* QString.indexOf(q, from, cs): the first occurrence at or after from, or -1
IndexOf(s, q, from, cs) ==
    LET hits == {i \in from..Len(s) : OccursAt(s, q, i, cs)}
    IN IF hits = {} THEN -1 ELSE CHOOSE i \in hits : \A j \in hits : i <= j

\* QString.lastIndexOf(q, from, cs): the last occurrence that starts at or
\* before from, or -1
LastIndexOf(s, q, from, cs) ==
    LET hits == {i \in 0..from : OccursAt(s, q, i, cs)}
    IN IF hits = {} THEN -1 ELSE CHOOSE i \in hits : \A j \in hits : i >= j

\* FindWholeWords: the occurrence of q at idx in s touches no letter or digit
IsWholeWord(s, q, idx) ==
    LET end == idx + Len(q)
    IN /\ idx = 0 \/ ~IsLetterOrNumber(s[idx])
       /\ end = Len(s) \/ ~IsLetterOrNumber(s[end + 1])

\* findInBlock: the index in the block text s of the match found from offset,
\* or -1; an occurrence that is no whole word sends the scan on
RECURSIVE FindInBlock(_, _, _, _, _, _)
FindInBlock(s, q, offset, cs, ww, backward) ==
    IF offset < 0 \/ offset > Len(s) THEN -1
    ELSE LET idx == IF backward THEN LastIndexOf(s, q, offset, cs)
                    ELSE IndexOf(s, q, offset, cs)
         IN IF idx = -1 THEN -1
            ELSE IF ww /\ ~IsWholeWord(s, q, idx)
            THEN FindInBlock(s, q,
                             IF backward THEN idx - 1 ELSE idx + Len(q) + 1,
                             cs, ww, backward)
            ELSE idx

\* the block loop of QTextDocument.find: start is the position of the block
\* searched first, offset the index in it the scan starts from
RECURSIVE FindFromBlock(_, _, _, _, _, _, _)
FindFromBlock(t, q, start, offset, cs, ww, backward) ==
    LET idx == FindInBlock(BlockText(t, start), q, offset, cs, ww, backward)
    IN IF idx # -1 THEN start + idx
       ELSE IF backward
       THEN IF start = 0 THEN -1
            ELSE LET previous == BlockStart(t, start - 1)
                 IN FindFromBlock(t, q, previous,
                                  Len(BlockText(t, previous)) - 1,
                                  cs, ww, backward)
       ELSE IF ~HasNextBlock(t, start) THEN -1
            ELSE FindFromBlock(t, q, NextBlock(t, start), 0, cs, ww, backward)

\* a find that goes on from the other end of the document when the scan
\* from the cursor finds nothing
DocumentFindWrapping(t, q, p, a, cs, ww, backward) ==
    LET from == IF backward THEN SelStart(p, a) - 1 ELSE SelEnd(p, a)
        at == IF q = <<>> \/ from < 0 THEN -1
              ELSE FindFromBlock(t, q, BlockStart(t, from),
                                 from - BlockStart(t, from), cs, ww, backward)
        other == IF backward THEN Len(t) ELSE 0
    IN IF at # -1 \/ q = <<>> THEN at
       ELSE FindFromBlock(t, q, BlockStart(t, other),
                          other - BlockStart(t, other), cs, ww, backward)

\* QTextDocument.find(q, cursor, flags) for a cursor at p with anchor a: the
\* position of the match, -1 for the null cursor
DocumentFind(t, q, p, a, cs, ww, backward) ==
    LET from == IF backward THEN SelStart(p, a) - 1 ELSE SelEnd(p, a)
    IN IF q = <<>> \/ from < 0 THEN -1
       ELSE FindFromBlock(t, q, BlockStart(t, from),
                          from - BlockStart(t, from), cs, ww, backward)

----------------------------------------------------------------------------
(* CodeEditor.find_text, replace_current, replace_all and the panel's      *)
(* _find_next, _replace_one, _replace_all.  Each yields the editor state   *)
(* it leaves together with its result.                                     *)

Outcome(t, p, a, blocks, found, count) ==
    [text |-> t, position |-> p, anchor |-> a, editBlocks |-> blocks,
     found |-> found, count |-> count]

\* find_text from the cursor (p, a) of document t
find_text(t, p, a, query, cs, ww, backwards) ==
    IF query = <<>> THEN Outcome(t, p, a, editBlocks, FALSE, 0)
    ELSE LET at == DocumentFind(t, query, p, a, cs, ww, backwards)
         IN IF at = -1 THEN Outcome(t, p, a, editBlocks, FALSE, 0)
            ELSE Outcome(t, at + Len(query), at, editBlocks, TRUE, 0)

\* replace_current without the test of lines 318-319: the insertion is made
\* at the cursor when nothing is selected
replace_current_unguarded(t, p, a, replacement) ==
    LET from == SelStart(p, a)
        at == from + Len(replacement)
    IN Outcome(ReplaceRange(t, from, SelEnd(p, a), replacement),
               at, at, editBlocks, TRUE, 0)

\* replace_current that leaves the editor's cursor where the selection ended
replace_current_stale_cursor(t, p, a, replacement) ==
    IF ~HasSelection(p, a) THEN Outcome(t, p, a, editBlocks, FALSE, 0)
    ELSE Outcome(ReplaceRange(t, SelStart(p, a), SelEnd(p, a), replacement),
                 SelEnd(p, a), SelEnd(p, a), editBlocks, TRUE, 0)

\* replace_current with the cursor (p, a)
replace_current(t, p, a, replacement) ==
    IF ~HasSelection(p, a) THEN Outcome(t, p, a, editBlocks, FALSE, 0)
    ELSE LET from == SelStart(p, a)
             at == from + Len(replacement)
         IN Outcome(ReplaceRange(t, from, SelEnd(p, a), replacement),
                    at, at, editBlocks, TRUE, 0)

\* the loop searching again from the start of each match it replaced, cut
\* off after eight rounds
RECURSIVE ReplaceLoopFromMatch(_, _, _, _, _, _, _)
ReplaceLoopFromMatch(t, p, query, replacement, cs, ww, count) ==
    LET at == DocumentFind(t, query, p, p, cs, ww, FALSE)
    IN IF at = -1 \/ count >= 8
       THEN [text |-> t, position |-> p, count |-> count,
             cursorIsNull |-> TRUE]
       ELSE ReplaceLoopFromMatch(
                ReplaceRange(t, at, at + Len(query), replacement),
                at, query, replacement, cs, ww, count + 1)

\* the loop of lines 343-349, the editor's cursor at p without selection;
\* the insertion through the found cursor moves the editor's cursor behind
\* the replacement.  The cursor the loop leaves in the local is the null one.
RECURSIVE ReplaceLoop(_, _, _, _, _, _, _)
ReplaceLoop(t, p, query, replacement, cs, ww, count) ==
    LET at == DocumentFind(t, query, p, p, cs, ww, FALSE)
    IN IF at = -1
       THEN [text |-> t, position |-> p, count |-> count,
             cursorIsNull |-> TRUE]
       ELSE ReplaceLoop(ReplaceRange(t, at, at + Len(query), replacement),
                        at + Len(replacement), query, replacement, cs, ww,
                        count + 1)

\* replace_all without the move to the document start of lines 341-342
replace_all_from_cursor(query, replacement, cs, ww) ==
    IF query = <<>>
    THEN Outcome(text, position, anchor, editBlocks, FALSE, 0)
    ELSE LET opened == editBlocks + 1
             r == ReplaceLoop(text, SelEnd(position, anchor), query,
                              replacement, cs, ww, 0)
         IN Outcome(r.text, r.position, r.position,
                    EndEditBlock(r.cursorIsNull, opened),
                    r.count > 0, r.count)

\* replace_all without the test of lines 328-329
replace_all_unguarded(query, replacement, cs, ww) ==
    LET opened == editBlocks + 1
        r == ReplaceLoop(text, 0, query, replacement, cs, ww, 0)
    IN Outcome(r.text, r.position, r.position,
               EndEditBlock(r.cursorIsNull, opened),
               r.count > 0, r.count)

\* replace_all
replace_all(query, replacement, cs, ww) ==
    IF query = <<>>
    THEN Outcome(text, position, anchor, editBlocks, FALSE, 0)
    ELSE LET opened == editBlocks + 1
             r == ReplaceLoop(text, 0, query, replacement, cs, ww, 0)
         IN Outcome(r.text, r.position, r.position,
                    EndEditBlock(r.cursorIsNull, opened),
                    r.count > 0, r.count)

\* the test of line 309 of the window: the selection is taken for the match
SelectionIsPattern(t, p, a, pattern) ==
    /\ HasSelection(p, a)
    /\ SubSeq(t, SelStart(p, a) + 1, SelEnd(p, a)) = pattern

\* SyntaxPadWindow._replace_one; found: no "no match" message was shown
replace_one(pattern, replacement, cs, ww) ==
    IF ~SelectionIsPattern(text, position, anchor, pattern)
    THEN LET f == find_text(text, position, anchor, pattern, cs, ww, FALSE)
         IN IF ~f.found THEN f
            ELSE replace_current(f.text, f.position, f.anchor, replacement)
    ELSE replace_current(text, position, anchor, replacement)

\* an operation of the search panel: the editor state becomes o
SearchOperation(op, query, replacement, cs, ww, backwards, o) ==
    /\ steps > 0
    /\ text' = o.text
    /\ position' = o.position
    /\ anchor' = o.anchor
    /\ editBlocks' = o.editBlocks
    /\ last' = [Hist(op, "") EXCEPT !.query = query,
                                    !.replacement = replacement,
                                    !.case_sensitive = cs,
                                    !.whole_word = ww,
                                    !.backwards = backwards,
                                    !.found = o.found,
                                    !.count = o.count]
    /\ steps' = steps - 1
    /\ UNCHANGED <<tip, timer, settings, palette, hlPalette, rules, formats,
                   fnArgs, fnRet>>
    /\ UNCHANGED windowVars

\* what the search and replace fields may hold: a word or nothing
QueryAlphabet == {"a", "A"}
Queries == Docs(QueryAlphabet, MaxQueryLen)
Replacements == {<<>>, <<"b">>, <<"a", "a">>}

FindNext ==
    \E query \in Queries, cs \in BOOLEAN, ww \in BOOLEAN, bw \in BOOLEAN :
        SearchOperation("find", query, <<>>, cs, ww, bw,
                        find_text(text, position, anchor, query, cs, ww, bw))

ReplaceOne ==
    \E query \in Queries, replacement \in Replacements,
       cs \in BOOLEAN, ww \in BOOLEAN :
        SearchOperation("replace_one", query, replacement, cs, ww, FALSE,
                        replace_one(query, replacement, cs, ww))

\* CodeEditor.replace_current called on its own
ReplaceCurrent ==
    \E replacement \in Replacements :
        SearchOperation("replace_current", <<>>, replacement, FALSE, FALSE,
                        FALSE,
                        replace_current(text, position, anchor, replacement))

ReplaceAll ==
    \E query \in Queries, replacement \in Replacements,
       cs \in BOOLEAN, ww \in BOOLEAN :
        SearchOperation("replace_all", query, replacement, cs, ww, FALSE,
                        replace_all(query, replacement, cs, ww))

SearchAlphabet == {"a", "A", " ", "\n"}

InitSearch ==
    /\ text \in Docs(SearchAlphabet, MaxSearchDocLen)
    /\ position \in 0..Len(text)
    /\ anchor \in 0..Len(text)
    /\ settings = DefaultSettings
    /\ steps = SearchSteps
    /\ QuietInit

NextSearch ==
    \/ FindNext
    \/ ReplaceOne
    \/ ReplaceAll
    \/ ReplaceCurrent

SpecSearch == InitSearch /\ [][NextSearch]_vars

----------------------------------------------------------------------------
(* replace_all with search texts and replacements of letters and blanks:   *)
(* SpecReplaceAll.                                                         *)

ReplaceAllAny ==
    \E query \in Docs({"a", "A", " "}, MaxQueryLen),
       replacement \in {<<>>, <<"a">>, <<"A">>, <<"a", "a">>, <<" ", "a">>},
       cs \in BOOLEAN, ww \in BOOLEAN :
        SearchOperation("replace_all", query, replacement, cs, ww, FALSE,
                        replace_all(query, replacement, cs, ww))

InitReplaceAll ==
    /\ text \in Docs({"a", "A", " "}, MaxReplaceDocLen)
    /\ position \in 0..Len(text)
    /\ anchor = position
    /\ settings = DefaultSettings
    /\ steps = ReplaceAllSteps
    /\ QuietInit

SpecReplaceAll == InitReplaceAll /\ [][ReplaceAllAny]_vars

----------------------------------------------------------------------------
(* The keys and the search panel together: SpecCore. *)

CoreAlphabet == {"a", ")", "\n"}
CoreDocs == Docs(CoreAlphabet, MaxCoreDocLen) \cup {INDENT \o <<"a">>}
CoreQueries == {<<"a">>, <<"a", "a">>}
CoreReplacements == {<<>>, <<"a", "a">>}

CoreFind ==
    \E query \in CoreQueries, bw \in BOOLEAN :
        SearchOperation("find", query, <<>>, FALSE, FALSE, bw,
                        find_text(text, position, anchor, query, FALSE,
                                  FALSE, bw))

CoreReplaceOne ==
    \E query \in CoreQueries, replacement \in CoreReplacements :
        SearchOperation("replace_one", query, replacement, FALSE, FALSE,
                        FALSE, replace_one(query, replacement, FALSE, FALSE))

CoreReplaceAll ==
    \E query \in CoreQueries, replacement \in CoreReplacements :
        SearchOperation("replace_all", query, replacement, FALSE, FALSE,
                        FALSE, replace_all(query, replacement, FALSE, FALSE))

InitCore ==
    /\ text \in CoreDocs
    /\ position \in 0..Len(text)
    /\ anchor \in 0..Len(text)
    /\ settings = DefaultSettings
    /\ steps = CoreSteps
    /\ QuietInit

NextCore ==
    \/ KeyOpener
    \/ KeyCloser
    \/ KeyOther
    \/ KeyEnter
    \/ KeyTab
    \/ KeyBacktab
    \/ CoreFind
    \/ CoreReplaceOne
    \/ CoreReplaceAll

SpecCore == InitCore /\ [][NextCore]_vars

----------------------------------------------------------------------------
(* SyntaxPadWindow: the settings file, the font size and the script        *)
(* process: SpecWindow.                                                    *)

\* what the settings file may hold.  kind tells how far reading it gets:
\* inaccessible (its directory cannot be searched: exists() raises),
\* missing (exists() is false), unreadable (open raises), corrupt
\* (json.load raises), list, number, string, null (json.load returns a
\* value that is no dict), object (a dict, in data)
SettingsFiles ==
    {[kind |-> k, data |-> <<>>] :
        k \in {"inaccessible", "missing", "unreadable", "corrupt", "list",
                "number", "string", "null", "object"}}
    \cup {[kind |-> "object", data |-> d] :
              d \in {[theme |-> "light"], [font_size |-> 20],
                      [font_size |-> 100], [zoom |-> 2],
                      [theme |-> "light", zoom |-> 2],
                      [theme |-> "light", show_calltips |-> FALSE,
                       font_size |-> 5, word_wrap |-> FALSE]}}

\* the PermissionError Path.exists() raises at line 192, outside the try
PermissionError == [raised |-> "PermissionError"]

\* _load_settings: the defaults when the file is missing and when open,
\* json.load or data.setdefault raises; else the dict read, every default
\* key it lacks set
load_settings(f) ==
    IF f.kind = "inaccessible" THEN PermissionError
    ELSE IF f.kind = "missing" THEN DefaultSettings
    ELSE IF f.kind \in {"unreadable", "corrupt"} THEN DefaultSettings
    ELSE IF f.kind # "object" THEN DefaultSettings
    ELSE f.data @@ DefaultSettings

\* reset_font_size with the font_size setting for the default
reset_font_size_to_setting == set_font_size(Get(settings, "font_size", 13))

\* reset_font_size: set_font_size(self._default_font_size)
reset_font_size == set_font_size(defaultFontSize)

\* a call of one of the font methods of the editor: the size becomes size
FontCall(op, size) ==
    /\ steps > 0
    /\ pointSize' = size
    /\ last' = [Hist(op, "") EXCEPT !.pointSize = pointSize]
    /\ steps' = steps - 1
    /\ UNCHANGED <<editorVars, settings, settingsFile, defaultFontSize,
                   process, runEnabled, stopEnabled, currentFile>>

SetFontSize ==
    \E size \in {5, 6, 16, 72, 73} : FontCall("set_font_size", set_font_size(size))

\* adjust_font_size(delta): set_font_size(pointSize + delta)
AdjustFontSize ==
    \E delta \in {-1, 1} :
        FontCall("adjust_font_size", set_font_size(pointSize + delta))

ResetFontSize == FontCall("reset_font_size", reset_font_size)

\* run_script.  chosen: the save dialog gave a path; written: writing the
\* file went through (else _write_to_path raises and run_script ends there)
run_script(chosen, written) ==
    LET stay == [currentFile |-> currentFile, process |-> process,
                 runEnabled |-> runEnabled, stopEnabled |-> stopEnabled,
                 started |-> FALSE]
    IN IF ~currentFile /\ ~chosen THEN stay
       ELSE IF ~written THEN [stay EXCEPT !.currentFile = TRUE]
       ELSE IF process # "NotRunning"
       THEN [stay EXCEPT !.currentFile = TRUE]
       ELSE [currentFile |-> TRUE, process |-> "Starting",
             runEnabled |-> FALSE, stopEnabled |-> TRUE, started |-> TRUE]

\* a step of the window around the script process
ProcessStep(op, o) ==
    /\ steps > 0
    /\ currentFile' = o.currentFile
    /\ process' = o.process
    /\ runEnabled' = o.runEnabled
    /\ stopEnabled' = o.stopEnabled
    /\ last' = [Hist(op, "") EXCEPT !.process = process,
                                    !.started = o.started]
    /\ steps' = steps - 1
    /\ UNCHANGED <<editorVars, settings, settingsFile, pointSize,
                   defaultFontSize>>

RunScript ==
    \E chosen \in BOOLEAN, written \in BOOLEAN :
        ProcessStep("run_script", run_script(chosen, written))

\* stop_script: kill() on a process that is not NotRunning; the process
\* ends later, and finished is emitted then
StopScript ==
    ProcessStep("stop_script",
                [currentFile |-> currentFile, process |-> process,
                 runEnabled |-> runEnabled, stopEnabled |-> stopEnabled,
                 started |-> FALSE])

\* QProcess: the program was started
ProcessStarted ==
    /\ process = "Starting"
    /\ ProcessStep("started",
                   [currentFile |-> currentFile, process |-> "Running",
                    runEnabled |-> runEnabled, stopEnabled |-> stopEnabled,
                    started |-> FALSE])

\* QProcess: the program could not be started; errorOccurred is emitted,
\* which nothing is connected to, and finished is not
ProcessFailedToStart ==
    /\ process = "Starting"
    /\ ProcessStep("failed_to_start",
                   [currentFile |-> currentFile, process |-> "NotRunning",
                    runEnabled |-> runEnabled, stopEnabled |-> stopEnabled,
                    started |-> FALSE])

\* QProcess: the program ended, by itself or killed; finished is emitted
\* and _process_finished runs
ProcessFinished ==
    /\ process = "Running"
    /\ ProcessStep("finished",
                   [currentFile |-> currentFile, process |-> "NotRunning",
                    runEnabled |-> TRUE, stopEnabled |-> FALSE,
                    started |-> FALSE])

\* SyntaxPadWindow.__init__: the settings are loaded, the editor built and
\* its font set to the font_size setting; no file, no script
InitWindow ==
    /\ settingsFile \in {f \in SettingsFiles : f.kind # "inaccessible"}
    /\ settings = load_settings(settingsFile)
    /\ defaultFontSize = ConstructedFontSize
    /\ pointSize = set_font_size(Get(settings, "font_size", 13))
    /\ process = "NotRunning"
    /\ runEnabled = TRUE
    /\ stopEnabled = FALSE
    /\ currentFile = FALSE
    /\ text = <<>>
    /\ position = 0
    /\ anchor = 0
    /\ editBlocks = 0
    /\ tip = None
    /\ timer = 0
    /\ palette = <<>>
    /\ hlPalette = <<>>
    /\ rules = <<>>
    /\ formats = <<>>
    /\ fnArgs = <<>>
    /\ fnRet = <<>>
    /\ last = NoOp
    /\ steps = WindowSteps

NextWindow ==
    \/ SetFontSize
    \/ AdjustFontSize
    \/ ResetFontSize
    \/ RunScript
    \/ StopScript
    \/ ProcessStarted
    \/ ProcessFailedToStart
    \/ ProcessFinished

SpecWindow == InitWindow /\ [][NextWindow]_vars

----------------------------------------------------------------------------
(* Theme.py: the two palettes. *)

DARK_PALETTE ==
    [background |-> "#0d1117", foreground |-> "#c9d1d9",
     keyword |-> "#79c0ff", builtin |-> "#d2a8ff", comment |-> "#8b949e",
     string |-> "#7ee787", number |-> "#ffa657", function |-> "#d2a8ff"]

LIGHT_PALETTE ==
    [background |-> "#ffffff", foreground |-> "#24292f",
     keyword |-> "#0550ae", builtin |-> "#8250df", comment |-> "#6e7781",
     string |-> "#a31515", number |-> "#116329", function |-> "#953800"]

Palettes == {DARK_PALETTE, LIGHT_PALETTE}

----------------------------------------------------------------------------
(* PythonHighlighter.py.  A rule is a pattern (named by its kind) and the  *)
(* character format built for it; a match is [start, length, from, span]:  *)
(* the 0-based start and the length of the whole match, and the start and  *)
(* the length of what highlightBlock formats.                              *)

\* the members of KEYWORDS that the letters of the model spell
KEYWORDS == {<<"d", "e", "f">>, <<"i", "f">>}

\* the names the builtin pattern lists, as far as the model's letters spell
BuiltinNames == {}

\* \w and \s of the regular expressions
IsWordChar(c) == c \in Letters \cup Digits \cup {"_"}
HexDigits == Digits \cup {"a", "b", "d", "e", "f", "A", "B"}

\* the character of line s at 0-based index i, NullChar outside it
At(s, i) == IF i >= 0 /\ i < Len(s) THEN s[i + 1] ELSE NullChar

\* \b at index i of s: a word character on exactly one side
WordBoundary(s, i) == IsWordChar(At(s, i - 1)) # IsWordChar(At(s, i))

\* w stands in s at index i
Stands(s, w, i) ==
    /\ i + Len(w) <= Len(s)
    /\ \A k \in 1..Len(w) : s[i + k] = w[k]

\* the length of the longest run of characters of set from index i of s
RECURSIVE RunLength(_, _, _)
RunLength(s, i, set) ==
    IF At(s, i) \in set THEN 1 + RunLength(s, i + 1, set) ELSE 0

Whole(i, n) == [start |-> i, length |-> n, from |-> i, span |-> n]
NoMatch == [start |-> -1, length |-> 0, from |-> -1, span |-> 0]

\* \b(kw1|kw2|...)\b at index i
KeywordAt(s, i) ==
    LET fits == {w \in KEYWORDS :
                    Stands(s, w, i) /\ WordBoundary(s, i + Len(w))}
    IN IF ~WordBoundary(s, i) \/ fits = {} THEN NoMatch
       ELSE Whole(i, Len(CHOOSE w \in fits : TRUE))

\* \b(__?[a-zA-Z_]+__?|print|len|...)\b at index i: a whole word that is a
\* listed name, or letters and underscores between two underscores
BuiltinAt(s, i) ==
    LET n == RunLength(s, i, Letters \cup Digits \cup {"_"})
        word == SubSeq(s, i + 1, i + n)
        dunder == /\ n >= 3
                  /\ word[1] = "_" /\ word[n] = "_"
                  /\ \A k \in 1..n : word[k] \in Letters \cup {"_"}
    IN IF WordBoundary(s, i) /\ n > 0 /\ (dunder \/ word \in BuiltinNames)
       THEN Whole(i, n) ELSE NoMatch

\* \b(0x[0-9a-fA-F]+|\d+(\.\d+)?)\b at index i
NumberAt(s, i) ==
    LET hex == RunLength(s, i + 2, HexDigits)
        int == RunLength(s, i, Digits)
        frac == IF At(s, i + int) = "."
                THEN RunLength(s, i + int + 1, Digits) ELSE 0
    IN IF ~WordBoundary(s, i) THEN NoMatch
       ELSE IF /\ At(s, i) = "0" /\ At(s, i + 1) = "x" /\ hex > 0
               /\ WordBoundary(s, i + 2 + hex)
       THEN Whole(i, 2 + hex)
       ELSE IF int = 0 THEN NoMatch
       ELSE IF frac > 0 /\ WordBoundary(s, i + int + 1 + frac)
       THEN Whole(i, int + 1 + frac)
       ELSE IF WordBoundary(s, i + int) THEN Whole(i, int)
       ELSE NoMatch

\* the index of the quote that closes a string opened before index i, -1 if
\* none does: ([^q\\]|\\.)* runs up to the first quote no backslash escapes
RECURSIVE ClosingQuote(_, _, _)
ClosingQuote(s, i, quote) ==
    IF i >= Len(s) THEN -1
    ELSE IF At(s, i) = quote THEN i
    ELSE IF At(s, i) = "\\"
    THEN IF i + 1 < Len(s) THEN ClosingQuote(s, i + 2, quote) ELSE -1
    ELSE ClosingQuote(s, i + 1, quote)

\* the string pattern at index i; its first two alternatives match every
\* quote the triple-quoted ones could start at, so those never apply
StringAt(s, i) ==
    IF At(s, i) \in {"'", "\""}
    THEN LET close == ClosingQuote(s, i + 1, At(s, i))
         IN IF close = -1 THEN NoMatch ELSE Whole(i, close - i + 1)
    ELSE NoMatch

\* #[^\n]* at index i
CommentAt(s, i) ==
    IF At(s, i) = "#" THEN Whole(i, Len(s) - i) ELSE NoMatch

\* the function pattern with the whole match formatted
FunctionAtWholeMatch(s, i) ==
    LET gap == RunLength(s, i + 3, Whitespace)
        n == RunLength(s, i + 3 + gap, IdentChar)
    IN IF /\ WordBoundary(s, i)
          /\ Stands(s, <<"d", "e", "f">>, i)
          /\ gap > 0
          /\ At(s, i + 3 + gap) \in IdentStart
       THEN Whole(i, 3 + gap + n)
       ELSE NoMatch

\* \bdef\s+([a-zA-Z_][a-zA-Z0-9_]*) at index i; lines 55-58 format the
\* capture group only
FunctionAt(s, i) ==
    LET gap == RunLength(s, i + 3, Whitespace)
        name == i + 3 + gap
        n == RunLength(s, name, IdentChar)
    IN IF /\ WordBoundary(s, i)
          /\ Stands(s, <<"d", "e", "f">>, i)
          /\ gap > 0
          /\ At(s, name) \in IdentStart
       THEN [start |-> i, length |-> 3 + gap + n, from |-> name, span |-> n]
       ELSE NoMatch

RuleKinds ==
    <<"keyword", "builtin", "number", "string", "comment", "function">>

MatchAt(kind, s, i) ==
    CASE kind = "keyword" -> KeywordAt(s, i)
      [] kind = "builtin" -> BuiltinAt(s, i)
      [] kind = "number" -> NumberAt(s, i)
      [] kind = "string" -> StringAt(s, i)
      [] kind = "comment" -> CommentAt(s, i)
      [] kind = "function" -> FunctionAt(s, i)

\* pattern.globalMatch(text): the matches from index i on, left to right,
\* each search starting where the match before ended
RECURSIVE GlobalMatch(_, _, _)
GlobalMatch(kind, s, i) ==
    IF i >= Len(s) THEN <<>>
    ELSE LET m == MatchAt(kind, s, i)
         IN IF m = NoMatch THEN GlobalMatch(kind, s, i + 1)
            ELSE <<m>> \o GlobalMatch(kind, s, i + m.length)

\* fmt(color, bold, italic) of _init_rules, and the unformatted character
Format(color, bold, italic, underline) ==
    [color |-> color, bold |-> bold, italic |-> italic,
     underline |-> underline]
NoFormat == Format("", FALSE, FALSE, FALSE)

\* _init_rules: the rules, in order, with the formats palette p gives them
InitRules(p) ==
    <<[kind |-> "keyword", format |-> Format(p.keyword, TRUE, FALSE, FALSE)],
      [kind |-> "builtin", format |-> Format(p.builtin, FALSE, FALSE, FALSE)],
      [kind |-> "number", format |-> Format(p.number, FALSE, FALSE, FALSE)],
      [kind |-> "string", format |-> Format(p.string, FALSE, FALSE, FALSE)],
      [kind |-> "comment", format |-> Format(p.comment, FALSE, TRUE, FALSE)],
      [kind |-> "function",
       format |-> Format(p.function, FALSE, FALSE, TRUE)]>>

\* setFormat(start, length, format) on the formats f of one block
SetFormat(f, start, length, format) ==
    [k \in 1..Len(f) |->
        IF k > start /\ k <= start + length THEN format ELSE f[k]]

\* the inner loop of highlightBlock: the matches ms of one rule
RECURSIVE ApplyMatches(_, _, _)
ApplyMatches(f, ms, format) ==
    IF ms = <<>> THEN f
    ELSE ApplyMatches(SetFormat(f, Head(ms).from, Head(ms).span, format),
                      Tail(ms), format)

\* the outer loop run from the last rule to the first
RECURSIVE ApplyRulesBackwards(_, _, _)
ApplyRulesBackwards(f, s, rs) ==
    IF rs = <<>> THEN f
    ELSE ApplyMatches(ApplyRulesBackwards(f, s, Tail(rs)),
                      GlobalMatch(Head(rs).kind, s, 0), Head(rs).format)

\* the outer loop of highlightBlock: the rules rs in order
RECURSIVE ApplyRules(_, _, _)
ApplyRules(f, s, rs) ==
    IF rs = <<>> THEN f
    ELSE ApplyRules(ApplyMatches(f, GlobalMatch(Head(rs).kind, s, 0),
                                 Head(rs).format),
                    s, Tail(rs))

\* highlightBlock(text) with the rules rs: the format of every character
HighlightBlock(s, rs) == ApplyRules([k \in 1..Len(s) |-> NoFormat], s, rs)

\* QSyntaxHighlighter.rehighlight: highlightBlock on every block
Rehighlight(t, rs) ==
    LET bs == Blocks(t) IN [b \in 1..Len(bs) |-> HighlightBlock(bs[b], rs)]

\* set_palette highlighting with the rules it held and rebuilding them after
SetPaletteOutcomeRebuildAfter(p) ==
    [palette |-> p, hlPalette |-> p, rules |-> InitRules(p),
     formats |-> Rehighlight(text, rules)]

\* CodeEditor.set_palette: the highlighter's palette attribute is set and
\* the document highlighted again with the rules the highlighter holds
SetPaletteOutcome(p) ==
    [palette |-> p, hlPalette |-> p, rules |-> rules,
     formats |-> Rehighlight(text, rules)]

SetPalette ==
    \E p \in Palettes :
        LET o == SetPaletteOutcome(p)
        IN /\ steps > 0
           /\ palette' = o.palette
           /\ hlPalette' = o.hlPalette
           /\ rules' = o.rules
           /\ formats' = o.formats
           /\ last' = [Hist("set_palette", "") EXCEPT !.palette = palette,
                                                     !.formats = formats,
                                                     !.beforeOp = last.op,
                                                     !.arg = p]
           /\ steps' = steps - 1
           /\ UNCHANGED <<text, position, anchor, editBlocks, tip, timer,
                          settings, fnArgs, fnRet>>
           /\ UNCHANGED windowVars

\* the line of the function-name example: def add(a, b):
DefAddLine ==
    <<"d", "e", "f", " ", "a", "d", "d", "(", "a", ",", " ", "b", ")", ":">>

\* lines that bring every rule into play, alone and one over another
HighlightLines ==
    {<<"d", "e", "f", " ", "a">>, <<"i", "f", " ", "1">>,
     <<"#", " ", "i", "f">>, <<"'", "i", "f", "'">>, <<"_", "a", "_">>,
     <<"a">>, <<"'", "#", "'">>, <<"#", "d", "e", "f", " ", "a">>,
     DefAddLine}

\* an editor built with either palette around a document of such lines
InitHighlight ==
    /\ \E k \in 1..MaxHighlightLines : text \in DocsOfLines(HighlightLines, k)
    /\ position = 0
    /\ anchor = 0
    /\ editBlocks = 0
    /\ tip = None
    /\ timer = 0
    /\ settings = DefaultSettings
    /\ palette \in Palettes
    /\ hlPalette = palette
    /\ rules = InitRules(palette)
    /\ formats = Rehighlight(text, rules)
    /\ fnArgs = <<>>
    /\ fnRet = <<>>
    /\ QuietWindow
    /\ last = NoOp
    /\ steps = HighlightSteps

NextHighlight == SetPalette

SpecHighlight == InitHighlight /\ [][NextHighlight]_vars

----------------------------------------------------------------------------
(* EditorLogic.py called on its own: SpecLogic. *)

\* the prefix of test_auto_indent_after_colon
ExamplePrefix == INDENT \o <<"i", "f", " ", "T", "r", "u", "e", ":">>

PrefixAlphabet == {" ", "\t", ":", "x"}
Prefixes == Docs(PrefixAlphabet, MaxPrefixLen) \cup {ExamplePrefix}
IndentUnits == {DEFAULT_INDENT, <<" ", " ">>, <<"\t">>}

\* the line of test_unindent_line_removes_one_level, and one two levels deep
ExampleLine == INDENT \o <<"x", " ", "=", " ", "1">>
TwoLevelLine == INDENT \o INDENT \o <<"x">>

\* names looked up: every entry, and names builtins does not have
CalltipNames ==
    DOMAIN Builtins \cup {<<>>, <<"i">>, <<"n", "o">>, <<"i", "d", "x">>}

LineAlphabet == {" ", "\t", "x"}
Lines == Docs(LineAlphabet, MaxLineLen) \cup {ExampleLine, TwoLevelLine}

\* a call of one of the functions about to be made
InitLogic ==
    /\ text = <<>>
    /\ position = 0
    /\ anchor = 0
    /\ settings = DefaultSettings
    /\ editBlocks = 0
    /\ tip = None
    /\ timer = 0
    /\ palette = <<>>
    /\ hlPalette = <<>>
    /\ rules = <<>>
    /\ formats = <<>>
    /\ \/ \E p \in Prefixes, u \in IndentUnits :
              fnArgs = [current_line_prefix |-> p, indent_unit |-> u]
       \/ \E l \in Lines, u \in IndentUnits :
              fnArgs = [line |-> l, indent_unit |-> u]
       \/ \E n \in CalltipNames : fnArgs = [name |-> n]
       \/ \E f \in SettingsFiles : fnArgs = [settings_file |-> f]
    /\ fnRet = <<>>
    /\ QuietWindow
    /\ last = NoOp
    /\ steps = LogicSteps

\* the call returns
ComputeNewline ==
    /\ steps > 0
    /\ "current_line_prefix" \in DOMAIN fnArgs
    /\ fnRet' = compute_newline_with_indentation(fnArgs.current_line_prefix,
                                                 fnArgs.indent_unit)
    /\ last' = Hist("compute_newline_with_indentation", "")
    /\ steps' = steps - 1
    /\ UNCHANGED <<text, position, anchor, editBlocks, tip, timer, settings,
                   palette, hlPalette, rules, formats, fnArgs>>
    /\ UNCHANGED windowVars

UnindentLine ==
    /\ steps > 0
    /\ "line" \in DOMAIN fnArgs
    /\ fnRet' = unindent_line(fnArgs.line, fnArgs.indent_unit)
    /\ last' = Hist("unindent_line", "")
    /\ steps' = steps - 1
    /\ UNCHANGED <<text, position, anchor, editBlocks, tip, timer, settings,
                   palette, hlPalette, rules, formats, fnArgs>>
    /\ UNCHANGED windowVars

GetBuiltinCalltip ==
    /\ steps > 0
    /\ "name" \in DOMAIN fnArgs
    /\ fnRet' = get_builtin_calltip(fnArgs.name)
    /\ last' = Hist("get_builtin_calltip", "")
    /\ steps' = steps - 1
    /\ UNCHANGED <<text, position, anchor, editBlocks, tip, timer, settings,
                   palette, hlPalette, rules, formats, fnArgs>>
    /\ UNCHANGED windowVars

LoadSettings ==
    /\ steps > 0
    /\ "settings_file" \in DOMAIN fnArgs
    /\ fnRet' = load_settings(fnArgs.settings_file)
    /\ last' = Hist("_load_settings", "")
    /\ steps' = steps - 1
    /\ UNCHANGED <<text, position, anchor, editBlocks, tip, timer, settings,
                   palette, hlPalette, rules, formats, fnArgs>>
    /\ UNCHANGED windowVars

NextLogic ==
    \/ ComputeNewline
    \/ UnindentLine
    \/ GetBuiltinCalltip
    \/ LoadSettings

SpecLogic == InitLogic /\ [][NextLogic]_vars

----------------------------------------------------------------------------
(* Claims about the bracket keys, under Spec. *)

\* the last keystroke was a closer typed with no selection active
CloserTypedWithoutSelection ==
    last.op = "closer" /\ last.position = last.anchor

\* the character right after the cursor, before the last keystroke, was the
\* typed key
CharAfterCursorWasKey ==
    /\ last.position < Len(last.text)
    /\ last.text[last.position + 1] = last.key

\* C1: a closer typed with no selection skips over (cursor one further, text
\* unchanged) exactly when the character right after the cursor equals it;
\* in every other case, the end of the document included, it is inserted and
\* the text grows by that one character.
C1_CloserSkipsIffNextCharEqual ==
    CloserTypedWithoutSelection =>
        IF CharAfterCursorWasKey
        THEN /\ text = last.text
             /\ position = last.position + 1
        ELSE /\ text = ReplaceRange(last.text, last.position, last.position,
                                    <<last.key>>)
             /\ Len(text) = Len(last.text) + 1

\* C1, the diverging case: a closer typed at the end of a document that ends
\* in that closer is swallowed
C1_SwallowedAtEnd ==
    /\ CloserTypedWithoutSelection
    /\ last.position = Len(last.text)
    /\ text = last.text
    /\ position = last.position

\* the last two keystrokes were an opener typed with no selection and then
\* its closer
OpenerThenCloser ==
    /\ last.op = "closer"
    /\ last.beforeOp = "opener"
    /\ last.beforePosition = last.beforeAnchor
    /\ last.key = BRACKETS[last.beforeKey]

\* C6: an opener and then its closer, typed with no selection, leave exactly
\* the pair inserted at the original cursor position, the cursor after the
\* closer: no character is duplicated or lost.
C6_OpenerThenCloserYieldsPair ==
    OpenerThenCloser =>
        /\ text = ReplaceRange(last.beforeText, last.beforePosition,
                               last.beforePosition,
                               <<last.beforeKey, last.key>>)
        /\ position = last.beforePosition + 2
        /\ anchor = position

\* C6 happens: "(" then ")" typed in front of an existing ")"
C6_Witness ==
    /\ OpenerThenCloser
    /\ last.beforeKey = "("
    /\ last.beforePosition < Len(last.beforeText)
    /\ last.beforeText[last.beforePosition + 1] = ")"
    /\ Len(text) = Len(last.beforeText) + 2

\* C7: an opener leaves itself and its closer where the cursor (or the
\* selection) was, and the cursor between the two, whether or not the
\* calltip lookup of "(" finds anything.
C7_OpenerLeavesCursorBetweenPair ==
    last.op = "opener" =>
        LET from == SelStart(last.position, last.anchor)
            to == SelEnd(last.position, last.anchor)
        IN /\ text = ReplaceRange(last.text, from, to,
                                  <<last.key, BRACKETS[last.key]>>)
           /\ position = from + 1
           /\ anchor = position

\* C7 happens: "(" typed after a builtin's name brings up its calltip
C7_Witness ==
    /\ last.op = "opener"
    /\ last.key = "("
    /\ last.tip = None
    /\ tip # None
    /\ text[position] = "(" /\ text[position + 1] = ")"

----------------------------------------------------------------------------
(* Claims about the indentation keys, under SpecIndent. *)

\* Shift+Tab was pressed with a selection active
BacktabWithSelection == last.op = "backtab" /\ last.position # last.anchor

\* the first and the last block holding a selected character, before the
\* last keystroke
FirstTouched == BlockNumber(last.text, SelStart(last.position, last.anchor))
LastTouched == BlockNumber(last.text, SelEnd(last.position, last.anchor) - 1)

\* C2: Shift+Tab with a selection dedents every line the selection touches:
\* each line i..j becomes unindent_line of itself, so it loses exactly one
\* indent unit if it starts with one, and no other line changes.
C2_BacktabDedentsEveryTouchedLine ==
    BacktabWithSelection =>
        LET before == Blocks(last.text)
            after == Blocks(text)
        IN /\ Len(after) = Len(before)
           /\ \A k \in 1..Len(before) :
                 after[k] = IF k \in FirstTouched..LastTouched
                            THEN unindent_line(before[k], INDENT)
                            ELSE before[k]

\* C2, the diverging case: a selection over two indented lines, and only the
\* first of them is dedented
C2_OnlyFirstLineDedented ==
    /\ BacktabWithSelection
    /\ LastTouched > FirstTouched
    /\ StartsWith(Blocks(last.text)[LastTouched], INDENT)
    /\ Blocks(text)[LastTouched] = Blocks(last.text)[LastTouched]
    /\ Blocks(text)[FirstTouched]
         = unindent_line(Blocks(last.text)[FirstTouched], INDENT)
    /\ Blocks(text)[FirstTouched] # Blocks(last.text)[FirstTouched]

----------------------------------------------------------------------------
(* Claims about find and replace, under SpecSearch. *)

\* replace_all ran with a search text
ReplaceAllRan == last.op = "replace_all" /\ last.query # <<>>

\* C3: replace_all is one undo transaction: the edit block it opens is
\* closed before it returns, for every input, so none stays open.
C3_ReplaceAllClosesItsEditBlock ==
    last.op = "replace_all" => editBlocks = last.editBlocks

\* C3, the diverging case: with nothing to replace, the edit block opened
\* by replace_all is still open after it
C3_EditBlockLeftOpen ==
    /\ ReplaceAllRan
    /\ last.count = 0
    /\ text = last.text
    /\ editBlocks = last.editBlocks + 1

\* q matches in document t at position i under the flags: the characters
\* agree and, for whole words, no letter or digit touches the match
IsMatchAt(t, q, i, cs, ww) ==
    /\ OccursAt(t, q, i, cs)
    /\ ww => IsWholeWord(t, q, i)

\* the text and the count that replacing, from position i of t on and left
\* to right, every match that does not overlap an earlier one gives
RECURSIVE ReplacedFrom(_, _, _, _, _, _)
ReplacedFrom(t, i, q, r, cs, ww) ==
    IF i >= Len(t) THEN [text |-> <<>>, count |-> 0]
    ELSE IF IsMatchAt(t, q, i, cs, ww)
    THEN LET rest == ReplacedFrom(t, i + Len(q), q, r, cs, ww)
         IN [text |-> r \o rest.text, count |-> rest.count + 1]
    ELSE LET rest == ReplacedFrom(t, i + 1, q, r, cs, ww)
         IN [text |-> <<t[i + 1]>> \o rest.text, count |-> rest.count]

SelectionWasMatch ==
    /\ last.position # last.anchor
    /\ SelEnd(last.position, last.anchor)
         - SelStart(last.position, last.anchor) = Len(last.query)
    /\ IsMatchAt(last.text, last.query, SelStart(last.position, last.anchor),
                 last.case_sensitive, last.whole_word)

\* C5: replace-one with the selection on a match of the search text under
\* the flags replaces that very occurrence and reports success, also when
\* the match differs from the search text in letter case only.
C5_ReplaceOneReplacesSelectedMatch ==
    (last.op = "replace_one" /\ SelectionWasMatch) =>
        /\ last.found
        /\ text = ReplaceRange(last.text,
                               SelStart(last.position, last.anchor),
                               SelEnd(last.position, last.anchor),
                               last.replacement)

\* C5, the diverging case: the selected match "A" of "a" is left alone and
\* the next occurrence is replaced
C5_LaterOccurrenceReplaced ==
    /\ last.op = "replace_one"
    /\ SelectionWasMatch
    /\ last.text = <<"A", " ", "a">>
    /\ SelStart(last.position, last.anchor) = 0
    /\ last.replacement = <<"b">>
    /\ text = <<"A", " ", "b">>

----------------------------------------------------------------------------
(* Claims about the palette swap, under SpecHighlight. *)

PaletteSwapped == last.op = "set_palette"

\* the colours palette p gives to the six rules
SyntaxColours(p) ==
    {p.keyword, p.builtin, p.number, p.string, p.comment, p.function}

\* the colours the highlighted document carries
ColoursShown ==
    UNION {{formats[b][k].color : k \in 1..Len(formats[b])} :
              b \in 1..Len(formats)} \ {""}

\* C8: after set_palette(p) every line's spans are those the rules built
\* from the new palette p give, and no span carries a colour that only the
\* palette active before the swap has.
C8_SwapRehighlightsWithNewPalette ==
    PaletteSwapped =>
        /\ formats = Rehighlight(text, InitRules(palette))
        /\ ColoursShown \cap (SyntaxColours(last.palette)
                                \ SyntaxColours(palette)) = {}

\* a swap from one palette to the other after which a span still carries a
\* colour of the palette the editor was built with
C8_StaleColourAfterSwap ==
    /\ PaletteSwapped
    /\ last.palette # palette
    /\ ColoursShown \cap (SyntaxColours(last.palette)
                            \ SyntaxColours(palette)) # {}

----------------------------------------------------------------------------
(* Claims about compute_newline_with_indentation, under SpecLogic. *)

NewlineComputed == last.op = "compute_newline_with_indentation"

\* the number of literal spaces p starts with; any other character, a tab
\* included, ends the run
SpacesAtStart(p) ==
    CHOOSE n \in 0..Len(p) :
        /\ \A k \in 1..n : p[k] = " "
        /\ n = Len(p) \/ p[n + 1] # " "

\* p with its trailing whitespace trimmed ends in ":"
TrimmedEndsInColon(p) ==
    \E k \in 1..Len(p) :
        /\ p[k] = ":"
        /\ \A j \in (k + 1)..Len(p) : p[j] \in Whitespace

\* C9: for a prefix p whose trimmed form does not end in ":" the result is
\* a line break followed by exactly as many spaces as p starts with, tabs
\* not counted, and nothing more; the empty prefix gives the line break.
C9_NoColonKeepsLeadingSpaces ==
    LET p == fnArgs.current_line_prefix
    IN NewlineComputed /\ ~TrimmedEndsInColon(p) =>
           /\ fnRet = <<"\n">> \o [k \in 1..SpacesAtStart(p) |-> " "]
           /\ p = <<>> => fnRet = <<"\n">>

\* spaces, then a tab, then more blanks: only the first spaces come back
C9_Witness ==
    /\ NewlineComputed
    /\ fnArgs.current_line_prefix = <<" ", "\t", " ", "x">>
    /\ fnRet = <<"\n", " ">>

\* C10: for a prefix p whose trimmed form ends in ":" the result is a line
\* break, then as many spaces as p starts with, then exactly one copy of the
\* indent unit; "    if True:" with the 4-space unit gives 8 spaces.
C10_ColonAddsOneUnit ==
    LET p == fnArgs.current_line_prefix
    IN NewlineComputed /\ TrimmedEndsInColon(p) =>
           /\ fnRet = <<"\n">> \o [k \in 1..SpacesAtStart(p) |-> " "]
                          \o fnArgs.indent_unit
           /\ p = ExamplePrefix /\ fnArgs.indent_unit = DEFAULT_INDENT =>
                  fnRet = <<"\n", " ", " ", " ", " ", " ", " ", " ", " ">>

\* the indented block opener and the 4-space unit: 8 spaces
C10_Witness ==
    /\ NewlineComputed
    /\ fnArgs.current_line_prefix = ExamplePrefix
    /\ fnArgs.indent_unit = DEFAULT_INDENT
    /\ Len(fnRet) = 9

----------------------------------------------------------------------------
(* Claims about unindent_line, under SpecLogic. *)

LineUnindented == last.op = "unindent_line"

\* l begins with a whole copy of u
BeginsWith(l, u) ==
    Len(u) <= Len(l) /\ \A k \in 1..Len(u) : l[k] = u[k]

\* C11: unindent_line returns the line less exactly one unit-length prefix
\* when the line starts with the unit and the line itself otherwise; a line
\* starting with two units keeps one; on a line that does not start with
\* the unit a second call returns the same line again.
C11_UnindentRemovesAtMostOneUnit ==
    LET l == fnArgs.line
        u == fnArgs.indent_unit
    IN LineUnindented =>
           /\ BeginsWith(l, u) =>
                  /\ Len(fnRet) = Len(l) - Len(u)
                  /\ \A k \in 1..Len(fnRet) : fnRet[k] = l[k + Len(u)]
           /\ ~BeginsWith(l, u) =>
                  /\ fnRet = l
                  /\ unindent_line(fnRet, u) = l
           /\ BeginsWith(l, u \o u) => BeginsWith(fnRet, u)

\* the line two levels deep loses one level and keeps the other
C11_Witness ==
    /\ LineUnindented
    /\ fnArgs.line = TwoLevelLine
    /\ fnArgs.indent_unit = DEFAULT_INDENT
    /\ fnRet = INDENT \o <<"x">>

----------------------------------------------------------------------------
(* Claims about find_text, under SpecSearch. *)

FindRan == last.op = "find" /\ last.query # <<>>

\* the starts of the matches a find from the state before may return: those
\* at or after the end of the selection going forward, those before the
\* start of the selection going backward
MatchesInDirection ==
    {i \in 0..Len(last.text) :
        /\ IsMatchAt(last.text, last.query, i, last.case_sensitive,
                     last.whole_word)
        /\ IF last.backwards
           THEN i < SelStart(last.position, last.anchor)
           ELSE i >= SelEnd(last.position, last.anchor)}

----------------------------------------------------------------------------
(* Claims about the empty search text, under SpecSearch. *)

EmptyQueryRan == last.op \in {"find", "replace_all"} /\ last.query = <<>>

\* C13: with an empty search text find_text returns False and replace_all
\* returns 0, and text, cursor position and selection stay as they were.
C13_EmptyQueryIsNoOp ==
    EmptyQueryRan =>
        /\ ~last.found
        /\ last.count = 0
        /\ text = last.text
        /\ position = last.position
        /\ anchor = last.anchor

\* replace_all with nothing to search for, on a document with a selection
C13_Witness ==
    /\ last.op = "replace_all"
    /\ last.query = <<>>
    /\ last.replacement = <<"b">>
    /\ last.text = <<"a", "a">>
    /\ last.anchor = 0
    /\ last.position = 2
    /\ last.count = 0
    /\ text = <<"a", "a">>
    /\ anchor = 0
    /\ position = 2

----------------------------------------------------------------------------
(* Claims about replace_current, under SpecSearch. *)

\* C14: replace_current with no selection returns False and changes neither
\* the text nor the cursor.
C14_ReplaceCurrentNeedsSelection ==
    (last.op = "replace_current" /\ last.position = last.anchor) =>
        /\ ~last.found
        /\ text = last.text
        /\ position = last.position
        /\ anchor = last.anchor

\* a replacement offered with the cursor inside "aa" and nothing selected
C14_Witness ==
    /\ last.op = "replace_current"
    /\ last.replacement = <<"b">>
    /\ last.text = <<"a", "a">>
    /\ last.position = 1
    /\ last.anchor = 1
    /\ ~last.found
    /\ text = <<"a", "a">>
    /\ position = 1

----------------------------------------------------------------------------
(* Claims about Enter and the edit block, under Spec. *)

EnterPressed == last.op = "enter"

\* the indexes of journal j that hold call
IndexesOf(j, call) == {k \in 1..Len(j) : j[k] = call}

\* C15: auto-indentation on Enter is one undoable transaction: the removal
\* of the selection and the insertion of the line break with its whitespace
\* lie between one beginEditBlock and its matching endEditBlock, which
\* leaves no block open, so they make one undo step.
C15_AutoIndentIsOneEditBlock ==
    EnterPressed =>
        LET j == last.journal
        IN /\ Cardinality(IndexesOf(j, "beginEditBlock")) = 1
           /\ Cardinality(IndexesOf(j, "endEditBlock")) = 1
           /\ IndexesOf(j, "insertText") # {}
           /\ \A b \in IndexesOf(j, "beginEditBlock"),
                 e \in IndexesOf(j, "endEditBlock"),
                 c \in IndexesOf(j, "removeSelectedText")
                         \cup IndexesOf(j, "insertText") : b < c /\ c < e
           /\ editBlocks = last.editBlocks
           /\ last.undoSteps = 1

\* Enter with the "d" of "id" selected: the selection goes and the line
\* break comes, in one undo step
C15_Witness ==
    /\ EnterPressed
    /\ last.text = <<"i", "d">>
    /\ last.anchor = 1
    /\ last.position = 2
    /\ text = <<"i", "\n">>
    /\ last.undoSteps = 1
    /\ editBlocks = 0

----------------------------------------------------------------------------
(* Claims about Escape, the calltip chord and Enter, under Spec. *)

\* the text between the start of the line of position p and p
PrefixBefore(t, p) ==
    LET start == CHOOSE k \in 0..p :
                     /\ k = 0 \/ t[k] = "\n"
                     /\ \A j \in (k + 1)..p : t[j] # "\n"
    IN SubSeq(t, start + 1, p)

\* the line break and indentation Enter inserts after prefix
AutoIndentFor(prefix) ==
    <<"\n">> \o [k \in 1..SpacesAtStart(prefix) |-> " "]
           \o (IF TrimmedEndsInColon(prefix) THEN INDENT ELSE <<>>)

\* C16: Escape and the calltip chord leave text, cursor position and
\* selection as they were; Enter hides the calltip and always inserts the
\* line break with the computed indentation in place of the selection.
C16_EscapeAndChordKeepBufferEnterIndents ==
    /\ last.op \in {"escape", "chord"} =>
           /\ text = last.text
           /\ position = last.position
           /\ anchor = last.anchor
    /\ last.op = "enter" =>
           LET from == SelStart(last.position, last.anchor)
               ins == AutoIndentFor(PrefixBefore(last.text, last.position))
           IN /\ tip = None
              /\ text = ReplaceRange(last.text, from,
                                     SelEnd(last.position, last.anchor), ins)
              /\ position = from + Len(ins)
              /\ anchor = position

\* Enter at the end of " :": the line break, the one leading space and one
\* indent unit come
C16_Witness ==
    /\ last.op = "enter"
    /\ last.text = <<" ", ":">>
    /\ last.position = 2
    /\ last.anchor = 2
    /\ text = <<" ", ":", "\n", " ">> \o INDENT
    /\ tip = None

----------------------------------------------------------------------------
(* Claims about a closer typed over a selection, and about Tab, under Spec. *)

CloserTypedOverSelection ==
    last.op = "closer" /\ last.position # last.anchor

\* C17: a closer typed while text is selected replaces the selection by
\* exactly one closer and never skips over, also when the character after
\* the selection is that closer.
C17_CloserReplacesSelection ==
    CloserTypedOverSelection =>
        LET from == SelStart(last.position, last.anchor)
        IN /\ text = ReplaceRange(last.text, from,
                                  SelEnd(last.position, last.anchor),
                                  <<last.key>>)
           /\ position = from + 1
           /\ anchor = position

\* ")" typed with the "i" of "i)" selected: the text becomes "))"
C17_Witness ==
    /\ CloserTypedOverSelection
    /\ last.key = ")"
    /\ last.text = <<"i", ")">>
    /\ last.anchor = 0
    /\ last.position = 1
    /\ text = <<")", ")">>
    /\ position = 1

\* C18: Tab inserts exactly one indent unit of 4 spaces at the cursor and
\* changes nothing else in the text; selected lines are not re-indented.
C18_TabInsertsOneUnitAtCursor ==
    last.op = "tab" =>
        /\ Len(INDENT) = 4
        /\ text = SubSeq(last.text, 1, last.position) \o INDENT
                    \o SubSeq(last.text, last.position + 1, Len(last.text))
        /\ position = last.position + Len(INDENT)

\* C18, the diverging case: Tab with the "d" of "id" selected puts the unit
\* in place of the selected text
C18_TabReplacesSelection ==
    /\ last.op = "tab"
    /\ last.text = <<"i", "d">>
    /\ last.anchor = 1
    /\ last.position = 2
    /\ text = <<"i">> \o INDENT

----------------------------------------------------------------------------
(* Claims about the cursor, under SpecCore. *)

\* the lines of the text: what lies between its line breaks
LineCount == 1 + Cardinality({k \in 1..Len(text) : text[k] = "\n"})

\* the line index and the column of offset p, both from 0
LineIndexOf(p) == Cardinality({k \in 1..p : text[k] = "\n"})
ColumnOf(p) ==
    p - (CHOOSE s \in 0..p :
             /\ s = 0 \/ text[s] = "\n"
             /\ \A j \in (s + 1)..p : text[j] # "\n")

\* the length of the line that offset p lies on
LineLengthAt(p) ==
    LET start == p - ColumnOf(p)
        end == CHOOSE e \in start..Len(text) :
                   /\ e = Len(text) \/ text[e + 1] = "\n"
                   /\ \A j \in (start + 1)..e : text[j] # "\n"
    IN end - start

ValidOffset(p) ==
    /\ p >= 0
    /\ p <= Len(text)
    /\ LineIndexOf(p) < LineCount
    /\ ColumnOf(p) <= LineLengthAt(p)

----------------------------------------------------------------------------
(* Claims about get_builtin_calltip, under SpecLogic. *)

CalltipResolved == last.op = "get_builtin_calltip"

\* name is an entry of the registry that can be called
CallableEntry(name) ==
    /\ name \in DOMAIN Builtins
    /\ ~Builtins[name].is_none
    /\ Builtins[name].callable

\* C20: get_builtin_calltip returns None whenever the name is no entry of
\* the builtin registry or an entry that is not callable, and a string for
\* callable entries only.
C20_CalltipOnlyForCallableEntries ==
    CalltipResolved =>
        /\ ~CallableEntry(fnArgs.name) => fnRet = None
        /\ fnRet # None =>
               /\ CallableEntry(fnArgs.name)
               /\ \A k \in 1..Len(fnRet) : fnRet[k] # Head(None)

\* __doc__ is an entry, a string: no calltip
C20_Witness ==
    /\ CalltipResolved
    /\ fnArgs.name = <<"_", "_", "d", "o", "c", "_", "_">>
    /\ fnArgs.name \in DOMAIN Builtins
    /\ fnRet = None

\* the lines of a text, as the pieces between its newlines
LinesOf(s) ==
    LET cuts == <<0>> \o SelectSeq([i \in 1..Len(s) |-> IF s[i] = "\n" THEN i ELSE 0],
                                   LAMBDA i : i > 0) \o <<Len(s) + 1>>
    IN [k \in 1..(Len(cuts) - 1) |-> SubSeq(s, cuts[k] + 1, cuts[k + 1] - 1)]

\* the first line of a text that has a character other than blanks, without
\* the blanks around it; <<>> when there is none
FirstNonEmptyLine(s) ==
    LET ls == LinesOf(s)
        full == {k \in 1..Len(ls) : \E i \in 1..Len(ls[k]) : ls[k][i] \notin Whitespace}
    IN IF full = {} THEN <<>>
       ELSE LET k == CHOOSE k \in full : \A j \in full : k <= j
                l == ls[k]
                inked == {i \in 1..Len(l) : l[i] \notin Whitespace}
            IN SubSeq(l, CHOOSE i \in inked : \A j \in inked : i <= j,
                         CHOOSE i \in inked : \A j \in inked : i >= j)

\* the signature shown for an entry: its own, or the placeholder
ShownSignature(name) ==
    IF Builtins[name].sig = None THEN <<"(", Ellipsis, ")">>
    ELSE Builtins[name].sig

C22_CalltipNeverRaises ==
    CalltipResolved => fnRet # IndexError

\* ws is callable and documented with blanks only: the lookup raises
C22_BlankDocRaises ==
    /\ CalltipResolved
    /\ fnArgs.name = <<"w", "s">>
    /\ CallableEntry(fnArgs.name)
    /\ Strip(Builtins[fnArgs.name].doc) = <<>>
    /\ fnRet = IndexError

----------------------------------------------------------------------------
(* Claims about highlightBlock, under SpecHighlight. *)

\* the rules whose matches format character k (1-based) of line s: for the
\* function rule what is formatted is the name after def
RulesCovering(s, k) ==
    {r \in 1..Len(rules) :
        \E i \in 0..(Len(s) - 1) :
            LET m == MatchAt(rules[r].kind, s, i)
            IN /\ m # NoMatch
               /\ \E n \in 1..Len(GlobalMatch(rules[r].kind, s, 0)) :
                      GlobalMatch(rules[r].kind, s, 0)[n] = m
               /\ k > m.from /\ k <= m.from + m.span}

\* C23: the rules are applied in the order keyword, builtin, number, string,
\* comment, function over the whole line and the last one wins: every
\* character has the style of the last rule in that order with a match over
\* it, and a character under no match has no style.
C23_LastRuleWins ==
    /\ [r \in 1..Len(rules) |-> rules[r].kind]
           = <<"keyword", "builtin", "number", "string", "comment",
               "function">>
    /\ \A b \in 1..Len(formats) :
           LET s == Blocks(text)[b]
           IN /\ Len(formats[b]) = Len(s)
              /\ \A k \in 1..Len(s) :
                     LET over == RulesCovering(s, k)
                     IN formats[b][k] =
                            IF over = {} THEN NoFormat
                            ELSE rules[CHOOSE r \in over :
                                           \A q \in over : q <= r].format

\* the line '#': the number sign lies in a string and starts a comment, and
\* carries the comment's style
C23_Witness ==
    \E b \in 1..Len(formats) :
        /\ Blocks(text)[b] = <<"'", "#", "'">>
        /\ RulesCovering(Blocks(text)[b], 2) = {4, 5}
        /\ formats[b][2] = rules[5].format
        /\ formats[b][1] = rules[4].format

\* C24: the function style goes to the identifier after def only, never to
\* def or the blanks between: on def add(a, b): the three characters of add
\* carry it and def keeps the keyword style.
C24_FunctionStyleOnNameOnly ==
    \A b \in 1..Len(formats) :
        LET s == Blocks(text)[b]
            fn == rules[6].format
        IN /\ \A i \in 0..(Len(s) - 1) :
                  (/\ Stands(s, <<"d", "e", "f">>, i)
                   /\ WordBoundary(s, i)
                   /\ At(s, i + 3) \in Whitespace) =>
                      \A k \in (i + 1)..(i + 3 + RunLength(s, i + 3, Whitespace)) :
                          formats[b][k] # fn
           /\ s = DefAddLine =>
                  /\ {k \in 1..Len(s) : formats[b][k] = fn} = {5, 6, 7}
                  /\ \A k \in 1..3 : formats[b][k] = rules[1].format

\* def add(a, b): highlighted
C24_Witness ==
    \E b \in 1..Len(formats) :
        /\ Blocks(text)[b] = DefAddLine
        /\ formats[b][5] = rules[6].format
        /\ formats[b][1] = rules[1].format

\* C25: set_palette(p) called twice in a row leaves the editor palette and
\* the spans of every line as they were after the first call.
C25_PaletteSwapIdempotent ==
    (/\ PaletteSwapped
     /\ last.beforeOp = "set_palette"
     /\ last.arg = last.palette) =>
        /\ palette = last.palette
        /\ formats = last.formats

\* the editor was built with the dark palette and given the light one twice
C25_Witness ==
    /\ PaletteSwapped
    /\ last.beforeOp = "set_palette"
    /\ last.arg = LIGHT_PALETTE
    /\ last.palette = LIGHT_PALETTE
    /\ rules = InitRules(DARK_PALETTE)
    /\ ColoursShown # {}

----------------------------------------------------------------------------
(* Claims about the calltip timer, under SpecCalltip. *)

\* the last key brought a calltip up
CalltipShown ==
    /\ last.op \in {"chord", "opener"}
    /\ last.tip = None
    /\ tip # None

\* C26: whenever a calltip is shown the timer is started with
\* max(500, calltip_timeout_ms), 2500 standing for an absent setting; no
\* integer setting, zero and negative ones included, brings it below 500.
C26_TimerIsClampedTimeout ==
    /\ CalltipShown =>
           LET wanted == IF "calltip_timeout_ms" \in DOMAIN settings
                         THEN settings["calltip_timeout_ms"] ELSE 2500
           IN timer = IF wanted < 500 THEN 500 ELSE wanted
    /\ tip # None => timer >= 500

\* the setting is 0 and the calltip of id comes with a timer of 500
C26_Witness ==
    /\ CalltipShown
    /\ "calltip_timeout_ms" \in DOMAIN settings
    /\ settings["calltip_timeout_ms"] = 0
    /\ timer = 500

----------------------------------------------------------------------------
(* Claims about the loop of replace_all, under SpecReplaceAll. *)

\* the positions of t where q stands, letters compared under cs
Occurrences(t, q, cs) == {i \in 0..Len(t) : OccursAt(t, q, i, cs)}

\* the positions of t where q matches under both flags
MatchesIn(t, q, cs, ww) == {i \in 0..Len(t) : IsMatchAt(t, q, i, cs, ww)}

\* C29, as stated: replace_all ends for every document, search text,
\* replacement and flags, also when the replacement holds the search text
\* or matches it without regard to case; every round searches on behind the
\* replacement put in, so there are at most as many rounds as the original
\* text has matches.
C29_RoundsBoundedByMatches ==
    ReplaceAllRan =>
        last.count <= Cardinality(MatchesIn(last.text, last.query,
                                            last.case_sensitive,
                                            last.whole_word))

\* C29, amended: replace_all ends, every round searching on behind the
\* replacement put in; there are at most as many rounds as the original
\* text has occurrences of the search text, and with whole_word off, or a
\* search text that begins with a letter or digit, at most as many as it
\* has matches.
C29_RoundsBoundedByOccurrences ==
    ReplaceAllRan =>
        /\ last.count <= Cardinality(Occurrences(last.text, last.query,
                                                 last.case_sensitive))
        /\ (~last.whole_word \/ IsLetterOrNumber(Head(last.query))) =>
               last.count <= Cardinality(MatchesIn(last.text, last.query,
                                                   last.case_sensitive,
                                                   last.whole_word))
        /\ Len(text) = Len(last.text)
               + last.count * (Len(last.replacement) - Len(last.query))

\* "a" replaced by "aa" in "aa": two rounds, the text doubled
C29_Witness ==
    /\ ReplaceAllRan
    /\ last.text = <<"a", "a">>
    /\ last.query = <<"a">>
    /\ last.replacement = <<"a", "a">>
    /\ last.count = 2
    /\ text = <<"a", "a", "a", "a">>

----------------------------------------------------------------------------
(* Claims about the window, under SpecWindow. *)

\* the defaults of the settings
SettingDefaults ==
    [theme |-> "dark", show_calltips |-> TRUE, font_size |-> 13,
     word_wrap |-> TRUE]

\* _load_settings returned
SettingsLoaded == last.op = "_load_settings"

\* C27: loading the settings never fails: a missing file gives the
\* defaults; a readable file of valid key-value JSON gives its values, every
\* recognised key it lacks taken from the defaults and unknown keys kept; a
\* corrupt, unparseable or non-object file gives exactly the defaults, and
\* no error reaches the caller.
C27_LoadSettingsNeverFails ==
    SettingsLoaded =>
        LET f == fnArgs.settings_file
        IN /\ "raised" \notin DOMAIN fnRet
           /\ DOMAIN SettingDefaults \subseteq DOMAIN fnRet
           /\ f.kind = "missing" => fnRet = SettingDefaults
           /\ f.kind = "object" =>
                  /\ DOMAIN fnRet = DOMAIN f.data \cup DOMAIN SettingDefaults
                  /\ \A k \in DOMAIN f.data : fnRet[k] = f.data[k]
                  /\ \A k \in DOMAIN SettingDefaults \ DOMAIN f.data :
                         fnRet[k] = SettingDefaults[k]
           /\ f.kind \in {"unreadable", "corrupt", "list", "number",
                          "string", "null"} => fnRet = SettingDefaults

\* the directory of the settings file cannot be searched: the
\* PermissionError of exists() reaches the caller
C27_LoadRaisesOnInaccessibleFile ==
    /\ SettingsLoaded
    /\ fnArgs.settings_file.kind = "inaccessible"
    /\ "raised" \in DOMAIN fnRet

\* what the claim says of the files it names holds: every file whose
\* existence can be told loads, with the defaults for what it lacks
C27_AccessibleFilesLoad ==
    (SettingsLoaded /\ fnArgs.settings_file.kind # "inaccessible") =>
        LET f == fnArgs.settings_file
        IN /\ "raised" \notin DOMAIN fnRet
           /\ f.kind # "object" => fnRet = SettingDefaults
           /\ f.kind = "object" =>
                  /\ DOMAIN fnRet = DOMAIN f.data \cup DOMAIN SettingDefaults
                  /\ \A k \in DOMAIN f.data : fnRet[k] = f.data[k]
                  /\ \A k \in DOMAIN SettingDefaults \ DOMAIN f.data :
                         fnRet[k] = SettingDefaults[k]

\* C28: after any sequence of set_font_size and adjust_font_size calls, each
\* clamping the size to 6..72, reset_font_size puts the point size back to
\* the default taken when the editor was built.
C28_ResetRestoresDefaultSize ==
    /\ last.op \in {"set_font_size", "adjust_font_size"} =>
           pointSize >= 6 /\ pointSize <= 72
    /\ last.op = "reset_font_size" =>
           /\ pointSize = defaultFontSize
           /\ pointSize = 11

\* the size was raised to the largest, then reset
C28_Witness ==
    /\ last.op = "reset_font_size"
    /\ last.pointSize = 72
    /\ pointSize = 11

\* C30: in every state of the run/stop lifecycle Run is enabled and Stop
\* disabled exactly when no script process runs, Run disabled and Stop
\* enabled exactly while one runs; a process is started only when none runs.
C30_RunStopFollowProcess ==
    /\ (process = "NotRunning") <=> (runEnabled /\ ~stopEnabled)
    /\ (process # "NotRunning") <=> (~runEnabled /\ stopEnabled)
    /\ last.started => last.process = "NotRunning"

\* the program could not be started: no process runs, Run stays disabled
\* and Stop enabled
C30_RunDisabledAfterFailedStart ==
    /\ last.op = "failed_to_start"
    /\ process = "NotRunning"
    /\ ~runEnabled
    /\ stopEnabled

============================================================================
